---------------------------- MODULE Spec2Model ----------------------------
(***************************************************************************)
(* A model of the WebAssembly code-generation backend (gen_wasm) of the    *)
(* Roc compiler: the per-procedure driver WasmBackend of backend.rs, the   *)
(* module-level tables it feeds, and a small interpreter of the emitted    *)
(* instructions, so that properties of the emitted code can be checked by  *)
(* running it.                                                             *)
(*                                                                         *)
(* The backend's fields are the variables.  Every method of WasmBackend is *)
(* an operator from a record of those fields to the record after the call; *)
(* an action reads the variables into the record Self, applies the         *)
(* method, and writes the record back with SetSelf.  build_stmt is         *)
(* recursive in the source: its pending continuations are the variable     *)
(* call_stack.                                                             *)
(***************************************************************************)
EXTENDS Integers, Sequences, FiniteSets, TLC

VARIABLES
    \* module-level data of WasmBackend
    module,                  \* [types, import, code_builders, const_segment]
    constant_sym_index_map,  \* string -> index into linker_symbols
    builtin_sym_index_map,   \* builtin name -> index into linker_symbols
    proc_symbols,            \* sequence of [sym, linker_sym_index]
    linker_symbols,          \* sequence of SymInfo
    \* function-level data of WasmBackend
    code_builder,            \* [code, preamble, insertions, top]
    storage,                 \* [symbol_storage_map, arg_types, local_types, ...]
    symbol_layouts,          \* symbol -> layout
    block_depth,
    joinpoint_label_map,     \* join id -> [depth, params]
    debug_current_proc_index,
    refcount_proc_gen,       \* the helper procedures generated so far
    error,                   \* "none", or the fatal error that aborted the session
    \* control: the procedures still to compile, and build_stmt's continuations
    procs,
    call_stack,
    \* history: counts of start_block/start_loop and end_block calls and the
    \* values block_depth took in the procedure being compiled, that procedure,
    \* and the statement being lowered (recorded in every instruction it emits)
    history,
    \* the virtual machine running the code of the last finished procedure
    vm,
    \* the layout interner: which kind is live ("none", "global", "single"),
    \* the shared table [map, normalized_lambda_set_map, vec, panic], the
    \* owner of each of its locks (0 when free), every thread's fork of the
    \* table, every thread's program, position and results, and the
    \* conversions and programs that follow
    mode, table, locks, forks, threads, phases,
    \* the dev backend's x86-64 function: the instructions emitted for it, the
    \* arguments and the result of setup_stack, and a processor that runs the
    \* instructions
    dev_buf, dev_fn, dev_cpu

vars == <<module, constant_sym_index_map, builtin_sym_index_map, proc_symbols,
          linker_symbols, code_builder, storage, symbol_layouts, block_depth,
          joinpoint_label_map, debug_current_proc_index, refcount_proc_gen, error,
          procs, call_stack,
          history, vm,
          mode, table, locks, forks, threads, phases,
          dev_buf, dev_fn, dev_cpu>>

\* the layout interner's share of the state
interner_vars == <<mode, table, locks, forks, threads, phases>>

\* an interner that holds nothing: no map entry, no slot
EmptyInterner ==
    [map |-> <<>>, normalized_lambda_set_map |-> <<>>, vec |-> <<>>, panic |-> "none"]

\* no interner has been built, no thread runs
NoInterner ==
    /\ mode = "none"
    /\ table = EmptyInterner
    /\ locks = [map |-> 0, normalized_lambda_set_map |-> 0, vec |-> 0]
    /\ forks = <<>>
    /\ threads = <<>>
    /\ phases = <<>>

\* the dev backend's share of the state
dev_vars == <<dev_buf, dev_fn, dev_cpu>>

\* an integer wider than 31 bits, in two parts: hi * 2^16 + lo
Wide(hi, lo) == [hi |-> hi, lo |-> lo]

\* no function has been started: nothing emitted, the processor idle
NewFn ==
    [phase |-> "new", conv |-> "SystemV", leaf_function |-> TRUE, saved_regs |-> <<>>,
     requested_stack_size |-> Wide(0, 0),
     result |-> [ok |-> TRUE, value |-> Wide(0, 0), err |-> ""], setup_len |-> 0]

IdleCpu == [status |-> "idle", pc |-> 0, rsp |-> Wide(0, 0), regs |-> <<>>, mem |-> <<>>]

NoDev ==
    /\ dev_buf = <<>>
    /\ dev_fn = NewFn
    /\ dev_cpu = IdleCpu

---------------------------------------------------------------------------
(* Bounds of the model *)

\* most Switch/Join nodes in a generated statement tree
MaxNodes == 2
\* most non-default branches of a generated Switch
MaxBranches == 2
\* largest start value of the countdown loop
MaxCount == 5
\* most string literals lowered in one session
MaxLits == 3
\* largest argument value the compiled function is run on
MaxArg == 2

---------------------------------------------------------------------------
(* Program constants *)

PTR_SIZE == 4
CONST_SEGMENT_BASE_ADDR == 1024
MinI32 == -2147483647 - 1
NoLocal == 0 - 1
NoSym == "-"

Max(a, b) == IF a >= b THEN a ELSE b

round_up_to_alignment(n, a) ==
    IF a <= 1 THEN n ELSE IF n % a = 0 THEN n ELSE n + a - (n % a)

RECURSIVE SumSeq(_)
SumSeq(s) == IF s = <<>> THEN 0 ELSE Head(s) + SumSeq(Tail(s))

RECURSIVE MaxSeq(_)
MaxSeq(s) == IF s = <<>> THEN 0 ELSE Max(Head(s), MaxSeq(Tail(s)))

Take(s, n) == SubSeq(s, 1, IF n <= Len(s) THEN n ELSE Len(s))


Put(m, k, v) == (k :> v) @@ m

---------------------------------------------------------------------------
(* Layouts, as the layout pass hands them to the backend *)

LayoutInt(bytes) == [k |-> "Int", bytes |-> bytes]
LayoutI32 == LayoutInt(4)
LayoutI64 == LayoutInt(8)
LayoutBool == [k |-> "Bool"]
LayoutFloat(bytes) == [k |-> "Float", bytes |-> bytes]
LayoutStr == [k |-> "Str"]
LayoutList(elem) == [k |-> "List", elem |-> elem]
LayoutStruct(fields) == [k |-> "Struct", fields |-> fields]
LayoutUnion(u) == [k |-> "Union", u |-> u]

UnionLayout(variant, tags, nullable_id) ==
    [variant |-> variant, tags |-> tags, nullable_id |-> nullable_id]

\* UnionLayout::tag_is_null
tag_is_null(u, tag_id) ==
    CASE u.variant = "NullableWrapped" -> u.nullable_id = tag_id
      [] u.variant = "NullableUnwrapped" -> (u.nullable_id = 1) = (tag_id # 0)
      [] OTHER -> FALSE

stores_tag_id_in_pointer(u, ptr_bytes) ==
    /\ u.variant \in {"Recursive", "NullableWrapped"}
    /\ Len(u.tags) < ptr_bytes

stores_tag_id_as_data(u, ptr_bytes) ==
    CASE u.variant = "NonRecursive" -> TRUE
      [] u.variant \in {"Recursive", "NullableWrapped"} ->
            ~stores_tag_id_in_pointer(u, ptr_bytes)
      [] OTHER -> FALSE

\* the width of the discriminant: u8 up to 256 tags
tag_id_size(u) == 1

RECURSIVE stack_size(_)
RECURSIVE alignment_bytes(_)
RECURSIVE data_size_and_alignment(_)

FieldSizes(fields) == [i \in 1..Len(fields) |-> stack_size(fields[i])]
FieldAligns(fields) == [i \in 1..Len(fields) |-> alignment_bytes(fields[i])]

\* Layout::Struct: the fields one after the other, rounded up to the alignment
StructSize(fields) ==
    round_up_to_alignment(SumSeq(FieldSizes(fields)), MaxSeq(FieldAligns(fields)))

\* one variant of a union: its fields as a struct, followed by the tag id if stored
VariantSizeAlign(fields, id_size) ==
    LET fsize == StructSize(fields)
        falign == MaxSeq(FieldAligns(fields))
        align == IF id_size > 0 THEN Max(falign, id_size) ELSE falign
        size == IF id_size > 0
                THEN round_up_to_alignment(fsize + id_size, align)
                ELSE fsize
    IN  <<size, align>>

data_size_and_alignment(u) ==
    LET id_size == IF stores_tag_id_as_data(u, PTR_SIZE) THEN tag_id_size(u) ELSE 0
        sa == [i \in 1..Len(u.tags) |-> VariantSizeAlign(u.tags[i], id_size)]
    IN  <<MaxSeq([i \in 1..Len(sa) |-> sa[i][1]]),
          MaxSeq([i \in 1..Len(sa) |-> sa[i][2]])>>

stack_size(layout) ==
    CASE layout.k \in {"Int", "Float"} -> layout.bytes
      [] layout.k = "Bool" -> 1
      [] layout.k \in {"Str", "List"} -> 2 * PTR_SIZE
      [] layout.k = "Struct" -> StructSize(layout.fields)
      [] layout.k = "Union" ->
            IF layout.u.variant = "NonRecursive"
            THEN data_size_and_alignment(layout.u)[1]
            ELSE PTR_SIZE

alignment_bytes(layout) ==
    CASE layout.k \in {"Int", "Float"} -> layout.bytes
      [] layout.k = "Bool" -> 1
      [] layout.k \in {"Str", "List"} -> PTR_SIZE
      [] layout.k = "Struct" -> MaxSeq(FieldAligns(layout.fields))
      [] layout.k = "Union" ->
            IF layout.u.variant = "NonRecursive"
            THEN data_size_and_alignment(layout.u)[2]
            ELSE PTR_SIZE

\* WasmLayout::new
WasmLayoutNew(layout) ==
    CASE layout.k = "Int" ->
            [k |-> "Primitive",
             value_type |-> IF layout.bytes <= 4 THEN "I32" ELSE "I64",
             size |-> layout.bytes]
      [] layout.k = "Float" ->
            [k |-> "Primitive",
             value_type |-> IF layout.bytes <= 4 THEN "F32" ELSE "F64",
             size |-> layout.bytes]
      [] layout.k = "Bool" -> [k |-> "Primitive", value_type |-> "I32", size |-> 1]
      [] layout.k = "Union" /\ layout.u.variant # "NonRecursive" ->
            [k |-> "HeapMemory"]
      [] OTHER ->
            [k |-> "StackMemory", size |-> stack_size(layout),
             alignment_bytes |-> alignment_bytes(layout)]

\* WasmLayout::return_method
return_method(wl) ==
    CASE wl.k = "Primitive" -> [k |-> "Primitive", ty |-> wl.value_type]
      [] wl.k = "HeapMemory" -> [k |-> "Primitive", ty |-> "I32"]
      [] wl.k = "StackMemory" /\ wl.size = 0 -> [k |-> "NoReturnValue"]
      [] OTHER -> [k |-> "WriteToPointerArg"]

---------------------------------------------------------------------------
(* CodeBuilder: the instructions emitted so far.  An instruction is a      *)
(* record [op, a, b, c, by]: by is the statement context that emitted it.  *)
(* A call has a third operand c: twice the number of arguments, plus one   *)
(* if it returns a value.                                                  *)

Ins(op, a, b, by) == [op |-> op, a |-> a, b |-> b, c |-> 0, by |-> by]

NewCodeBuilder ==
    [code |-> <<>>, preamble |-> <<>>, local_types |-> <<>>, insertions |-> <<>>,
     top |-> NoSym]

\* every instruction changes the VM stack: the cached top symbol is forgotten
emit(self, op, a, b) ==
    [self EXCEPT !.code_builder.code = Append(@, Ins(op, a, b, self.history.ctx)),
                 !.code_builder.top = NoSym]

\* CodeBuilder::call: the function index, and the linker symbol index of the
\* relocation entry recorded for it
call(self, fn_index, linker_symbol_index, num_wasm_args, has_return_val) ==
    [self EXCEPT
       !.code_builder.code =
           Append(@, [Ins("call", fn_index, linker_symbol_index, self.history.ctx)
                        EXCEPT !.c = num_wasm_args * 2
                                     + (IF has_return_val THEN 1 ELSE 0)]),
       !.code_builder.top = NoSym]

\* CodeBuilder::set_top_symbol
set_top_symbol(self, sym) == [self EXCEPT !.code_builder.top = sym]

\* an instruction to be placed, when the function is finished, after the
\* first `at` instructions of the body
add_insertion(self, at, op, a) ==
    [self EXCEPT !.code_builder.insertions =
        Append(@, [at |-> at, ins |-> Ins(op, a, 0, self.history.ctx)])]

fatal(self, msg) == IF self.error = "none" THEN [self EXCEPT !.error = msg] ELSE self

---------------------------------------------------------------------------
(* Storage: where each symbol of the procedure being compiled lives *)

SV_VM(vm_state, pushed_at, value_type, size) ==
    [kind |-> "VirtualMachineStack", vm_state |-> vm_state, pushed_at |-> pushed_at,
     value_type |-> value_type, size |-> size]
SV_Local(local_id, value_type, size) ==
    [kind |-> "Local", local_id |-> local_id, value_type |-> value_type, size |-> size]
SV_Mem(location, size, align) ==
    [kind |-> "StackMemory", location |-> location, size |-> size,
     alignment_bytes |-> align]

FrameOffset(off) == [k |-> "FrameOffset", v |-> off]
PointerArg(local_id) == [k |-> "PointerArg", v |-> local_id]

NewStorage ==
    [symbol_storage_map |-> <<>>, arg_types |-> <<>>, local_types |-> <<>>,
     stack_frame_size |-> 0, stack_frame_pointer |-> NoLocal]

get_next_local_id(st) == Len(st.arg_types) + Len(st.local_types)

\* Storage::get
get(self, sym) == self.storage.symbol_storage_map[sym]

HasSym(self, sym) == sym \in DOMAIN self.storage.symbol_storage_map

SetStored(self, sym, stored) ==
    [self EXCEPT !.storage.symbol_storage_map = Put(@, sym, stored)]

\* StackMemoryLocation::local_and_offset
local_and_offset(location, stack_frame_pointer) ==
    IF location.k = "FrameOffset"
    THEN <<stack_frame_pointer, location.v>>
    ELSE <<location.v, 0>>

\* Storage::allocate
allocate(self, wl, sym, kind) ==
    LET st == self.storage
        next == get_next_local_id(st)
    IN
    IF wl.k \in {"Primitive", "HeapMemory"}
    THEN LET vt == IF wl.k = "Primitive" THEN wl.value_type ELSE "I32"
             size == IF wl.k = "Primitive" THEN wl.size ELSE PTR_SIZE
         IN  IF kind = "Parameter"
             THEN [self EXCEPT
                     !.storage.arg_types = Append(@, vt),
                     !.storage.symbol_storage_map = Put(@, sym, SV_Local(next, vt, size))]
             ELSE SetStored(self, sym, SV_VM("NotYetPushed", 0, vt, size))
    ELSE CASE kind = "Parameter" ->
                [self EXCEPT
                   !.storage.arg_types = Append(@, "I32"),
                   !.storage.symbol_storage_map =
                       Put(@, sym, SV_Mem(PointerArg(next), wl.size, wl.alignment_bytes))]
           [] kind = "ReturnValue" ->
                SetStored(self, sym, SV_Mem(PointerArg(0), wl.size, wl.alignment_bytes))
           [] OTHER ->
                LET need_fp == st.stack_frame_pointer = NoLocal
                    offset == round_up_to_alignment(st.stack_frame_size, wl.alignment_bytes)
                IN  [self EXCEPT
                       !.storage.stack_frame_pointer = IF need_fp THEN next ELSE @,
                       !.storage.local_types = IF need_fp THEN Append(@, "I32") ELSE @,
                       !.storage.stack_frame_size = offset + wl.size,
                       !.storage.symbol_storage_map =
                           Put(@, sym, SV_Mem(FrameOffset(offset), wl.size,
                                              wl.alignment_bytes))]

\* Storage::create_anonymous_local: the new local is get_next_local_id before the call
create_anonymous_local(self, value_type) ==
    [self EXCEPT !.storage.local_types = Append(@, value_type)]

\* Storage::ensure_value_has_local: an ephemeral value gets a local of its own.
\* A value still on top of the VM stack is popped into it; one pushed earlier is
\* stored where it was pushed; one that an instruction has consumed since is
\* copied where it was pushed, so that its first use still finds it; one not
\* yet pushed needs no code.
ensure_value_has_local(self, sym, stored) ==
    IF stored.kind # "VirtualMachineStack" THEN self
    ELSE LET local_id == get_next_local_id(self.storage)
             s1 == CASE stored.vm_state = "NotYetPushed" -> self
                     [] stored.vm_state = "Popped" ->
                            add_insertion(self, stored.pushed_at, "tee_local", local_id)
                     [] stored.vm_state = "Pushed" /\ self.code_builder.top = sym ->
                            emit(self, "set_local", local_id, 0)
                     [] OTHER -> add_insertion(self, stored.pushed_at, "set_local", local_id)
         IN  [s1 EXCEPT
                !.storage.local_types = Append(@, stored.value_type),
                !.storage.symbol_storage_map =
                    Put(@, sym, SV_Local(local_id, stored.value_type, stored.size))]

\* Storage::load_symbols, one symbol
load_symbol(self, sym) ==
    IF ~HasSym(self, sym) THEN fatal(self, "unknown symbol")
    ELSE
    LET stored == get(self, sym)
        reload(s1) == emit(s1, "get_local", get(s1, sym).local_id, 0)
    IN
    CASE stored.kind = "VirtualMachineStack" ->
            IF stored.vm_state = "NotYetPushed"
            THEN fatal(self, "symbol has no value yet")
            ELSE IF stored.vm_state = "Pushed" /\ self.code_builder.top = sym
            THEN \* already on top of the VM stack: no code, the next
                 \* instruction consumes it
                 SetStored(self, sym, [stored EXCEPT !.vm_state = "Popped"])
            ELSE reload(ensure_value_has_local(self, sym, stored))
      [] stored.kind = "Local" -> emit(self, "get_local", stored.local_id, 0)
      [] OTHER ->
            LET lo == local_and_offset(stored.location, self.storage.stack_frame_pointer)
                s1 == emit(self, "get_local", lo[1], 0)
            IN  IF lo[2] = 0 THEN s1
                ELSE emit(emit(emit(self, "get_local", lo[1], 0), "i32.const", lo[2], 0),
                          "i32.add", 0, 0)

RECURSIVE load_symbols(_, _)
load_symbols(self, syms) ==
    IF syms = <<>> THEN self
    ELSE load_symbols(load_symbol(self, Head(syms)), Tail(syms))

\* copy_memory (lib.rs): 8, then 4, then 1 bytes at a time
RECURSIVE copy_memory_from(_, _, _)
copy_memory_from(self, c, i) ==
    LET step(load, store, n) ==
            copy_memory_from(
                emit(emit(emit(emit(self, "get_local", c.to_ptr, 0),
                                    "get_local", c.from_ptr, 0),
                               load, c.alignment_bytes, i + c.from_offset),
                          store, c.alignment_bytes, i + c.to_offset),
                c, i + n)
    IN  CASE c.size - i >= 8 -> step("i64.load", "i64.store", 8)
          [] c.size - i >= 4 /\ c.size - i < 8 -> step("i32.load", "i32.store", 4)
          [] c.size - i > 0 /\ c.size - i < 4 -> step("i32.load8_u", "i32.store8", 1)
          [] OTHER -> self

copy_memory(self, c) ==
    IF c.from_ptr = c.to_ptr /\ c.from_offset = c.to_offset THEN self
    ELSE copy_memory_from(self, c, 0)

CopyMemoryConfig(from_ptr, from_offset, to_ptr, to_offset, size, align) ==
    [from_ptr |-> from_ptr, from_offset |-> from_offset, to_ptr |-> to_ptr,
     to_offset |-> to_offset, size |-> size, alignment_bytes |-> align]

StoreOp(value_type, size) ==
    CASE value_type = "I64" -> "i64.store"
      [] size = 1 -> "i32.store8"
      [] size = 2 -> "i32.store16"
      [] OTHER -> "i32.store"

LoadOp(value_type, size) ==
    CASE value_type = "I64" -> "i64.load"
      [] size = 1 -> "i32.load8_u"
      [] size = 2 -> "i32.load16_u"
      [] OTHER -> "i32.load"

\* Storage::copy_value_to_memory: <<the backend after the call, bytes written>>
copy_value_to_memory(self, to_ptr, to_offset, from_symbol) ==
    IF ~HasSym(self, from_symbol) THEN <<fatal(self, "unknown symbol"), 0>>
    ELSE
    LET stored == get(self, from_symbol) IN
    IF stored.kind = "StackMemory"
    THEN LET lo == local_and_offset(stored.location, self.storage.stack_frame_pointer)
         IN  <<copy_memory(self, CopyMemoryConfig(lo[1], lo[2], to_ptr, to_offset,
                                                  stored.size, stored.alignment_bytes)),
               stored.size>>
    ELSE LET s1 == emit(self, "get_local", to_ptr, 0)
             s2 == load_symbol(s1, from_symbol)
         IN  <<emit(s2, StoreOp(stored.value_type, stored.size), stored.size, to_offset),
               stored.size>>

\* Storage::copy_value_from_memory
copy_value_from_memory(self, to_symbol, from_ptr, from_offset) ==
    LET stored == get(self, to_symbol) IN
    IF stored.kind = "StackMemory"
    THEN LET lo == local_and_offset(stored.location, self.storage.stack_frame_pointer)
         IN  copy_memory(self, CopyMemoryConfig(from_ptr, from_offset, lo[1], lo[2],
                                                stored.size, stored.alignment_bytes))
    ELSE LET s1 == emit(self, "get_local", from_ptr, 0)
             s2 == emit(s1, LoadOp(stored.value_type, stored.size), stored.size,
                        from_offset)
         IN  IF stored.kind = "Local"
             THEN emit(s2, "set_local", stored.local_id, 0)
             ELSE s2

\* Storage::clone_value: assignment across storage classes
clone_value(self, to, from, from_symbol) ==
    CASE to.kind = "Local" /\ from.kind = "VirtualMachineStack" ->
            emit(load_symbol(self, from_symbol), "set_local", to.local_id, 0)
      [] to.kind = "Local" /\ from.kind = "Local" ->
            emit(emit(self, "get_local", from.local_id, 0), "set_local", to.local_id, 0)
      [] to.kind = "StackMemory" /\ from.kind = "StackMemory" ->
            LET f == local_and_offset(from.location, self.storage.stack_frame_pointer)
                t == local_and_offset(to.location, self.storage.stack_frame_pointer)
            IN  copy_memory(self, CopyMemoryConfig(f[1], f[2], t[1], t[2],
                                                   from.size, from.alignment_bytes))
      [] OTHER -> fatal(self, "Cannot copy storage")

---------------------------------------------------------------------------
(* Linker symbols, builtin imports and the constant pool *)

REFCOUNT_MAX == 0
WASM_SYM_BINDING_WEAK == 1
WASM_SYM_UNDEFINED == 16
CONST_SEGMENT_INDEX == 0

SymInfo(kind, def, flags, index, name, segment_offset, size) ==
    [kind |-> kind, def |-> def, flags |-> flags, index |-> index, name |-> name,
     segment_index |-> CONST_SEGMENT_INDEX, segment_offset |-> segment_offset,
     size |-> size]

\* the element with the zero-based index i of a Vec
At(vec, i) == vec[i + 1]

\* the little-endian bytes of a 32-bit two's complement integer, and back
I32ToLeBytes(v) ==
    LET u == IF v < 0 THEN v - MinI32 ELSE v   \* the low 31 bits
    IN  <<u % 256, (u \div 256) % 256, (u \div 65536) % 256,
          (u \div 16777216) + (IF v < 0 THEN 128 ELSE 0)>>

I32FromLeBytes(b) ==
    b[1] + 256 * b[2] + 65536 * b[3]
         + 16777216 * (IF b[4] >= 128 THEN b[4] - 256 ELSE b[4])

\* a 64-bit integer is a pair of 32-bit words
I64(lo, hi) == [lo |-> lo, hi |-> hi]

\* f32::from_bits and f64::from_bits: a float is kept as its bit pattern; the
\* patterns used are those of positive finite floats, which are equal as
\* floats exactly when their bits are equal
F32FromBits(bits) == [f32 |-> bits]
F64FromBits(bits) == [f64 |-> bits]
I64FromLeBytes(b) ==
    I64(I32FromLeBytes(SubSeq(b, 1, 4)), I32FromLeBytes(SubSeq(b, 5, 8)))
I64ToLeBytes(w) == I32ToLeBytes(w.lo) \o I32ToLeBytes(w.hi)
\* `x as i64` of a literal that fits 32 bits
I64FromInt(x) == I64(x, IF x < 0 THEN -1 ELSE 0)

\* TypeSection::insert: the index of the signature, appended if it is new
SignatureIndex(types, sig) ==
    IF \E i \in 1..Len(types) : types[i] = sig
    THEN (CHOOSE i \in 1..Len(types) : types[i] = sig) - 1
    ELSE Len(types)

InsertSignature(types, sig) ==
    IF \E i \in 1..Len(types) : types[i] = sig THEN types ELSE Append(types, sig)

\* call_zig_builtin without the lookup in builtin_sym_index_map: every call
\* imports the routine again
call_zig_builtin_no_reuse(self, name, param_types, ret_type) ==
    LET signature == [param_types |-> param_types, ret_type |-> ret_type]
        signature_index == SignatureIndex(self.module.types, signature)
        import_index == Len(self.module.import)
        sym_idx == Len(self.linker_symbols)
        s1 == [self EXCEPT
                 !.module.types = InsertSignature(@, signature),
                 !.module.import =
                     Append(@, [name |-> name, signature_index |-> signature_index]),
                 !.linker_symbols =
                     Append(@, SymInfo("Function", "Imported", WASM_SYM_UNDEFINED,
                                       import_index, "", 0, 0)),
                 !.builtin_sym_index_map = Put(@, name, sym_idx)]
    IN  call(s1, import_index, sym_idx, Len(param_types), ret_type # "None")

\* call_zig_builtin that remembers the import index as the symbol index
call_zig_builtin_import_index(self, name, param_types, ret_type) ==
    IF name \in DOMAIN self.builtin_sym_index_map
    THEN LET sym_idx == self.builtin_sym_index_map[name]
             info == At(self.linker_symbols, sym_idx)
         IN  IF info.kind = "Function" /\ info.def = "Imported"
             THEN call(self, info.index, sym_idx, Len(param_types), ret_type # "None")
             ELSE fatal(self, "Invalid linker symbol for builtin")
    ELSE LET signature == [param_types |-> param_types, ret_type |-> ret_type]
             signature_index == SignatureIndex(self.module.types, signature)
             import_index == Len(self.module.import)
             sym_idx == Len(self.linker_symbols)
             s1 == [self EXCEPT
                      !.module.types = InsertSignature(@, signature),
                      !.module.import =
                          Append(@, [name |-> name, signature_index |-> signature_index]),
                      !.linker_symbols =
                          Append(@, SymInfo("Function", "Imported", WASM_SYM_UNDEFINED,
                                            import_index, "", 0, 0)),
                      !.builtin_sym_index_map = Put(@, name, import_index)]
         IN  call(s1, import_index, sym_idx, Len(param_types), ret_type # "None")

\* WasmBackend::call_zig_builtin
call_zig_builtin(self, name, param_types, ret_type) ==
    IF name \in DOMAIN self.builtin_sym_index_map
    THEN LET sym_idx == self.builtin_sym_index_map[name]
             info == At(self.linker_symbols, sym_idx)
         IN  IF info.kind = "Function" /\ info.def = "Imported"
             THEN call(self, info.index, sym_idx, Len(param_types), ret_type # "None")
             ELSE fatal(self, "Invalid linker symbol for builtin")
    ELSE LET signature == [param_types |-> param_types, ret_type |-> ret_type]
             signature_index == SignatureIndex(self.module.types, signature)
             import_index == Len(self.module.import)
             sym_idx == Len(self.linker_symbols)
             s1 == [self EXCEPT
                      !.module.types = InsertSignature(@, signature),
                      !.module.import =
                          Append(@, [name |-> name, signature_index |-> signature_index]),
                      !.linker_symbols =
                          Append(@, SymInfo("Function", "Imported", WASM_SYM_UNDEFINED,
                                            import_index, "", 0, 0)),
                      !.builtin_sym_index_map = Put(@, name, sym_idx)]
         IN  call(s1, import_index, sym_idx, Len(param_types), ret_type # "None")

\* (initial_refcount as i32) - 1 + i32::MIN, in 32-bit arithmetic
EncodedRefcountOverflows(initial_refcount) == initial_refcount - 1 < 0
\* the count itself in the header, without the bias of one
encoded_refcount_unbiased(initial_refcount) == initial_refcount + MinI32

encoded_refcount(initial_refcount) == (initial_refcount - 1) + MinI32

\* WasmBackend::allocate_with_refcount with a data size known at compile time
allocate_with_refcount(self, data_size, align, initial_refcount) ==
    LET extra_bytes == Max(align, PTR_SIZE)
        refcount_offset == extra_bytes - PTR_SIZE
        s1 == emit(self, "i32.const", data_size + extra_bytes, 0)
        s2 == emit(s1, "i32.const", align, 0)
        allocated(s3) ==
            LET local_id == get_next_local_id(s3.storage)
                s4 == emit(create_anonymous_local(s3, "I32"), "set_local", local_id, 0)
                store(s5) ==
                    IF EncodedRefcountOverflows(initial_refcount)
                    THEN fatal(s5, "attempt to add with overflow")
                    ELSE LET s6 == emit(s5, "i32.const",
                                        encoded_refcount(initial_refcount), 0)
                             s7 == emit(s6, "i32.store", 4, refcount_offset)
                             s8 == emit(s7, "get_local", local_id, 0)
                             s9 == emit(s8, "i32.const", extra_bytes, 0)
                         IN  emit(s9, "i32.add", 0, 0)
            IN  store(emit(s4, "get_local", local_id, 0))
    IN  allocated(call_zig_builtin(s2, "roc_alloc", <<"I32", "I32">>, "I32"))

\* lookup_string_constant with the offset taken before the refcount is
\* appended: the string's address is that of its refcount
lookup_string_constant_at_refcount(self, string, sym) ==
    IF string \in DOMAIN self.constant_sym_index_map
    THEN LET linker_sym_index == self.constant_sym_index_map[string]
             syminfo == At(self.linker_symbols, linker_sym_index)
         IN  <<self, linker_sym_index,
               syminfo.segment_offset + CONST_SEGMENT_BASE_ADDR>>
    ELSE LET elements_offset == Len(self.module.const_segment)
             linker_sym_index == Len(self.linker_symbols)
         IN  <<[self EXCEPT
                  !.module.const_segment =
                      @ \o I32ToLeBytes(REFCOUNT_MAX) \o string,
                  !.constant_sym_index_map = Put(@, string, linker_sym_index),
                  !.linker_symbols =
                      Append(@, SymInfo("Data", "Defined", 0, 0, sym,
                                        elements_offset, Len(string)))],
               linker_sym_index, elements_offset + CONST_SEGMENT_BASE_ADDR>>

\* lookup_string_constant without the lookup: every literal is appended
lookup_string_constant_no_reuse(self, string, sym) ==
    LET with_refcount == self.module.const_segment \o I32ToLeBytes(REFCOUNT_MAX)
        linker_sym_index == Len(self.linker_symbols)
    IN  <<[self EXCEPT
             !.module.const_segment = with_refcount \o string,
             !.constant_sym_index_map = Put(@, string, linker_sym_index),
             !.linker_symbols =
                 Append(@, SymInfo("Data", "Defined", 0, 0, sym, Len(with_refcount),
                                   Len(string)))],
          linker_sym_index, Len(with_refcount) + CONST_SEGMENT_BASE_ADDR>>

\* WasmBackend::lookup_string_constant:
\* <<the backend after the call, linker symbol index, memory address>>
lookup_string_constant(self, string, sym) ==
    IF string \in DOMAIN self.constant_sym_index_map
    THEN LET linker_sym_index == self.constant_sym_index_map[string]
             syminfo == At(self.linker_symbols, linker_sym_index)
         IN  IF syminfo.kind = "Data" /\ syminfo.def = "Defined"
             THEN <<self, linker_sym_index,
                    syminfo.segment_offset + CONST_SEGMENT_BASE_ADDR>>
             ELSE <<fatal(self, "Invalid linker symbol info for string"), 0, 0>>
    ELSE LET with_refcount == self.module.const_segment \o I32ToLeBytes(REFCOUNT_MAX)
             elements_offset == Len(with_refcount)
             elements_addr == elements_offset + CONST_SEGMENT_BASE_ADDR
             linker_symbol == SymInfo("Data", "Defined", 0, 0, sym,
                                      elements_offset, Len(string))
             linker_sym_index == Len(self.linker_symbols)
         IN  <<[self EXCEPT
                  !.module.const_segment = with_refcount \o string,
                  !.constant_sym_index_map = Put(@, string, linker_sym_index),
                  !.linker_symbols = Append(@, linker_symbol)],
               linker_sym_index, elements_addr>>

\* the 8 bytes of a string shorter than 8 bytes, held in the value itself
RECURSIVE PadTo(_, _)
PadTo(bytes, n) == IF Len(bytes) >= n THEN bytes ELSE PadTo(Append(bytes, 0), n)

\* the string bytes without the length and flag in the last byte
small_str_no_length_byte(string) == PadTo(string, 8)

SmallStrBytes(string) == Append(PadTo(string, 7), 128 + Len(string))

\* writes the two halves of a 128-bit integer
write128(self, location, lower_bits, upper_bits) ==
    LET lo == local_and_offset(location, self.storage.stack_frame_pointer)
        s1 == emit(self, "get_local", lo[1], 0)
        s2 == emit(s1, "i64.const", lower_bits.lo, lower_bits.hi)
        s3 == emit(s2, "i64.store", 8, lo[2])
        s4 == emit(s3, "get_local", lo[1], 0)
        s5 == emit(s4, "i64.const", upper_bits.lo, upper_bits.hi)
    IN  emit(s5, "i64.store", 8, lo[2] + 8)

\* WasmBackend::load_literal
load_literal(self, lit, stored, sym) ==
    CASE stored.kind = "VirtualMachineStack" ->
            (CASE lit.k = "Int" /\ stored.value_type = "I64" ->
                    emit(self, "i64.const", I64FromInt(lit.v).lo, I64FromInt(lit.v).hi)
               [] lit.k \in {"Int", "Bool", "Byte"} /\ stored.value_type = "I32" ->
                    emit(self, "i32.const", lit.v, 0)
               [] OTHER -> fatal(self, "Literal value"))
      [] stored.kind = "StackMemory" ->
            (CASE lit.k = "Int" ->
                    write128(self, stored.location, I64FromInt(lit.v),
                             IF lit.v < 0 THEN I64(-1, -1) ELSE I64(0, 0))
               [] lit.k = "Str" ->
                    LET lo == local_and_offset(stored.location,
                                               self.storage.stack_frame_pointer)
                        len == Len(lit.v)
                    IN  IF len < 8
                        THEN LET str_as_int == I64FromLeBytes(SmallStrBytes(lit.v))
                                 s1 == emit(self, "get_local", lo[1], 0)
                                 s2 == emit(s1, "i64.const", str_as_int.lo, str_as_int.hi)
                             IN  emit(s2, "i64.store", 4, lo[2])
                        ELSE LET r == lookup_string_constant(self, lit.v, sym)
                                 s1 == emit(r[1], "get_local", lo[1], 0)
                                 s2 == emit(s1, "i32.const_mem_addr", r[3], r[2])
                                 s3 == emit(s2, "i32.store", 4, lo[2])
                                 s4 == emit(s3, "get_local", lo[1], 0)
                                 s5 == emit(s4, "i32.const", len, 0)
                             IN  emit(s5, "i32.store", 4, lo[2] + 4)
               [] OTHER -> fatal(self, "Literal value"))
      [] OTHER -> fatal(self, "Literal value")

---------------------------------------------------------------------------
(* Expressions *)

\* Storage::load_symbols_for_call:
\* <<the backend after the call, parameter types, return type or "None">>.
\* history.loads records the convention each call's arguments were loaded
\* with.
load_symbols_for_call(self, arguments, return_sym, return_layout, call_conv) ==
    LET method == return_method(return_layout)
        ret_type == IF method.k = "Primitive" THEN method.ty ELSE "None"
        by_ptr == method.k = "WriteToPointerArg"
        IsArg(i) == LET st == get(self, arguments[i])
                    IN  st.kind # "StackMemory" \/ st.size > 0
        TypeOf(sym) == LET st == get(self, sym)
                       IN  IF st.kind = "StackMemory" THEN "I32" ELSE st.value_type
        args == (IF by_ptr THEN <<return_sym>> ELSE <<>>)
                    \o SelectSeq(arguments, LAMBDA a :
                           LET st == get(self, a)
                           IN  st.kind # "StackMemory" \/ st.size > 0)
    IN  IF \E i \in 1..Len(arguments) : ~HasSym(self, arguments[i])
        THEN <<fatal(self, "unknown symbol"), <<>>, "None">>
        ELSE <<load_symbols([self EXCEPT !.history.loads =
                                 Append(@, [sym |-> return_sym, call_conv |-> call_conv,
                                            arguments |-> args])],
                            args),
               [i \in 1..Len(args) |-> TypeOf(args[i])], ret_type>>

\* decode_low_level: "Done" after emitting the instruction, the name of the
\* builtin to call, or "NotImplemented"
decode_low_level(self, lowlevel, return_layout) ==
    LET vt == IF return_layout.k = "Primitive" THEN return_layout.value_type ELSE "I32"
        pre == IF vt = "I64" THEN "i64." ELSE "i32."
    IN  CASE lowlevel = "NumAdd" -> <<emit(self, pre \o "add", 0, 0), "Done">>
          [] lowlevel = "NumSub" -> <<emit(self, pre \o "sub", 0, 0), "Done">>
          [] lowlevel = "StrConcat" -> <<self, "roc_builtins.str.concat">>
          [] lowlevel = "StrStartsWith" -> <<self, "roc_builtins.str.starts_with">>
          [] lowlevel = "StrCountGraphemes" ->
                <<self, "roc_builtins.str.count_grapheme_clusters">>
          [] OTHER -> <<self, "NotImplemented">>

\* WasmBackend::build_low_level
build_low_level(self, lowlevel, arguments, return_sym, return_layout) ==
    LET decoded(build_result, param_types, ret_type) ==
            CASE build_result[2] = "Done" -> build_result[1]
              [] build_result[2] = "NotImplemented" ->
                    fatal(build_result[1], "Low level operation")
              [] OTHER -> call_zig_builtin(build_result[1], build_result[2],
                                           param_types, ret_type)
        with_args(loaded) ==
            decoded(decode_low_level(loaded[1], lowlevel, return_layout),
                    loaded[2], loaded[3])
    IN  with_args(load_symbols_for_call(self, arguments, return_sym, return_layout,
                                        "Zig"))

\* LowLevel::from_inlined_wrapper: the low-level operation that a procedure
\* of the standard library is a wrapper of, "None" for any other procedure
InlinedWrappers ==
    [sym \in {"Num.add", "Num.sub", "Str.concat", "Str.countGraphemes"} |->
        CASE sym = "Num.add" -> "NumAdd"
          [] sym = "Num.sub" -> "NumSub"
          [] sym = "Str.concat" -> "StrConcat"
          [] sym = "Str.countGraphemes" -> "StrCountGraphemes"]

from_inlined_wrapper(func_sym) ==
    IF func_sym \in DOMAIN InlinedWrappers THEN InlinedWrappers[func_sym] ELSE "None"

\* the ByName arm with the last entry of proc_symbols for the callee
build_call_by_name_last(self, func_sym, arguments, sym, wasm_layout) ==
    LET with_args(loaded) ==
            LET s1 == loaded[1]
                found == {i \in 1..Len(s1.proc_symbols) :
                             s1.proc_symbols[i].sym = func_sym}
            IN  IF found = {}
                THEN fatal(s1, "Could not find procedure")
                ELSE LET i == CHOOSE i \in found : \A j \in found : i >= j
                     IN  call(s1, i - 1, s1.proc_symbols[i].linker_sym_index,
                              Len(loaded[2]), loaded[3] # "None")
    IN  IF from_inlined_wrapper(func_sym) # "None"
        THEN build_low_level(self, from_inlined_wrapper(func_sym), arguments, sym,
                             wasm_layout)
        ELSE with_args(load_symbols_for_call(self, arguments, sym, wasm_layout, "C"))

\* build_expr, Expr::Call with CallType::ByName
build_call_by_name(self, func_sym, arguments, sym, wasm_layout) ==
    LET with_args(loaded) ==
            LET s1 == loaded[1]
                found == {i \in 1..Len(s1.proc_symbols) :
                             s1.proc_symbols[i].sym = func_sym}
            IN  IF found = {}
                THEN fatal(s1, "Could not find procedure")
                ELSE LET i == CHOOSE i \in found : \A j \in found : i <= j
                     IN  call(s1, i - 1, s1.proc_symbols[i].linker_sym_index,
                              Len(loaded[2]), loaded[3] # "None")
    IN  IF from_inlined_wrapper(func_sym) # "None"
        THEN build_low_level(self, from_inlined_wrapper(func_sym), arguments, sym,
                             wasm_layout)
        ELSE with_args(load_symbols_for_call(self, arguments, sym, wasm_layout, "C"))

\* the fields of a struct written with each one padded to 4 bytes
RECURSIVE create_struct_fields_padded(_, _, _, _)
create_struct_fields_padded(self, local_id, field_offset, fields) ==
    IF fields = <<>> THEN self
    ELSE LET next(r) == create_struct_fields_padded(
                            r[1], local_id,
                            field_offset + round_up_to_alignment(r[2], 4), Tail(fields))
         IN  next(copy_value_to_memory(self, local_id, field_offset, Head(fields)))

\* WasmBackend::create_struct
RECURSIVE create_struct_fields(_, _, _, _)
create_struct_fields(self, local_id, field_offset, fields) ==
    IF fields = <<>> THEN self
    ELSE LET next(r) == create_struct_fields(r[1], local_id, field_offset + r[2],
                                             Tail(fields))
         IN  next(copy_value_to_memory(self, local_id, field_offset, Head(fields)))

\* a variant that emits nothing for a Struct layout that is not in stack memory
create_struct_any_storage(self, sym, layout, fields) ==
    LET stored == get(self, sym) IN
    IF layout.k = "Struct"
    THEN IF stored.kind = "StackMemory"
         THEN IF stored.size > 0
              THEN LET lo == local_and_offset(stored.location,
                                              self.storage.stack_frame_pointer)
                   IN  create_struct_fields(self, lo[1], lo[2], fields)
              ELSE self
         ELSE self
    ELSE clone_value(self, stored, get(self, fields[1]), fields[1])

\* WasmBackend::create_struct
create_struct(self, sym, layout, fields) ==
    LET stored == get(self, sym) IN
    IF layout.k = "Struct"
    THEN IF stored.kind = "StackMemory"
         THEN IF stored.size > 0
              THEN LET lo == local_and_offset(stored.location,
                                              self.storage.stack_frame_pointer)
                   IN  create_struct_fields(self, lo[1], lo[2], fields)
              ELSE self
         ELSE fatal(self, "Cannot create struct")
    ELSE clone_value(self, stored, get(self, fields[1]), fields[1])

\* the offset of field `index` with each field padded to its alignment
RECURSIVE struct_field_offset_aligned(_, _, _)
struct_field_offset_aligned(offset, field_layouts, index) ==
    IF index = 0
    THEN round_up_to_alignment(offset, alignment_bytes(field_layouts[1]))
    ELSE struct_field_offset_aligned(
             round_up_to_alignment(offset, alignment_bytes(field_layouts[1]))
                 + stack_size(field_layouts[1]),
             Tail(field_layouts), index - 1)

\* the offset at which build_expr reads field `index` of a struct at `offset`
struct_field_offset(offset, field_layouts, index) ==
    offset + SumSeq(FieldSizes(Take(field_layouts, index)))

\* StructAtIndex of a value that is not in stack memory emits nothing
build_struct_at_index_skips(self, sym, index, field_layouts, structure) ==
    LET stored == get(self, structure) IN
    IF stored.kind = "StackMemory"
    THEN LET lo == local_and_offset(stored.location, self.storage.stack_frame_pointer)
         IN  copy_value_from_memory(self, sym, lo[1],
                                    struct_field_offset(lo[2], field_layouts, index))
    ELSE self

\* build_expr, Expr::StructAtIndex
build_struct_at_index(self, sym, index, field_layouts, structure) ==
    LET stored == get(self, structure) IN
    IF stored.kind = "StackMemory"
    THEN LET lo == local_and_offset(stored.location, self.storage.stack_frame_pointer)
         IN  copy_value_from_memory(self, sym, lo[1],
                                    struct_field_offset(lo[2], field_layouts, index))
    ELSE fatal(self, "Unexpected storage")

\* build_expr, Expr::Array: the elements of the literal, each written as a
\* 128-bit integer, 8 bytes after the last write
RECURSIVE build_array_elems(_, _, _, _)
build_array_elems(self, local_id, offset, elems) ==
    IF elems = <<>> THEN self
    ELSE LET elem == Head(elems) IN
         CASE elem.k = "Literal" /\ elem.lit.k = "Int" ->
                LET lower_bits == I64FromInt(elem.lit.v)
                    upper_bits == IF elem.lit.v < 0 THEN I64(-1, -1) ELSE I64(0, 0)
                    s1 == emit(self, "get_local", local_id, 0)
                    s2 == emit(s1, "i64.const", lower_bits.lo, lower_bits.hi)
                    s3 == emit(s2, "i64.store", 8, offset + 8)
                    s4 == emit(s3, "get_local", local_id, 0)
                    s5 == emit(s4, "i64.const", upper_bits.lo, upper_bits.hi)
                    s6 == emit(s5, "i64.store", 8, offset + 16)
                IN  build_array_elems(s6, local_id, offset + 16, Tail(elems))
           [] elem.k = "Literal" -> fatal(self, "Handle List Literals")
           [] OTHER -> fatal(self, "Handle List Symbols")

\* build_expr, Expr::Array
build_array(self, sym, elems, elem_layout, stored) ==
    IF stored.kind = "StackMemory"
    THEN LET lo == local_and_offset(stored.location, self.storage.stack_frame_pointer)
             size == stack_size(elem_layout) * Len(elems)
             s1 == emit(self, "get_local", lo[1], 0)
             s2 == allocate_with_refcount(s1, size, stored.alignment_bytes, 1)
             s3 == emit(s2, "i32.store", 4, lo[2])
             s4 == emit(s3, "get_local", lo[1], 0)
             s5 == emit(s4, "i32.const", Len(elems), 0)
             s6 == emit(s5, "i32.store", 4, lo[2] + 4)
         IN  IF s2.error # "none" THEN s2
             ELSE build_array_elems(s6, lo[1], lo[2] + 4, elems)
    ELSE fatal(self, "Unexpected storage")

\* build_expr, Expr::EmptyArray
build_empty_array(self, stored) ==
    IF stored.kind = "StackMemory"
    THEN LET lo == local_and_offset(stored.location, self.storage.stack_frame_pointer)
             s1 == emit(self, "get_local", lo[1], 0)
             s2 == emit(s1, "i64.const", 0, 0)
         IN  emit(s2, "i64.store", 4, lo[2])
    ELSE fatal(self, "Unexpected storage")

\* WasmBackend::build_tag
RECURSIVE build_tag_fields(_, _, _, _)
build_tag_fields(self, local_id, field_offset, arguments) ==
    IF arguments = <<>> THEN self
    ELSE LET next(r) == build_tag_fields(r[1], local_id, field_offset + r[2],
                                         Tail(arguments))
         IN  next(copy_value_to_memory(self, local_id, field_offset, Head(arguments)))

TagIdStoreOp(align) ==
    CASE align = 1 -> "i32.store8"
      [] align = 2 -> "i32.store16"
      [] align = 8 -> "i64.store"
      [] OTHER -> "i32.store"

build_tag_null(self) == emit(self, "i32.const", 0, 0)

\* build_tag with the tag id stored where the data ends
build_tag_id_in_last_byte(self, union_layout, tag_id, arguments, symbol, stored) ==
    IF tag_is_null(union_layout, tag_id) THEN build_tag_null(self)
    ELSE
    LET as_data == stores_tag_id_as_data(union_layout, PTR_SIZE)
        in_pointer == stores_tag_id_in_pointer(union_layout, PTR_SIZE)
        sa == data_size_and_alignment(union_layout)
        data_size == sa[1]
        data_alignment == sa[2]
        \* the tag id, once the fields are stored at lo = <<local, offset>>
        store_id(s3, lo) ==
            CASE as_data ->
                    emit(emit(emit(s3, "get_local", lo[1], 0),
                              IF data_alignment = 8 THEN "i64.const" ELSE "i32.const",
                              tag_id, 0),
                         TagIdStoreOp(data_alignment), data_alignment,
                         lo[2] + data_size - tag_id_size(union_layout))
              [] ~as_data /\ in_pointer ->
                    emit(emit(emit(emit(s3, "get_local", lo[1], 0),
                                   "i32.const", tag_id, 0),
                              "i32.or", 0, 0),
                         "set_local", lo[1], 0)
              [] OTHER -> s3
        fields(s2, lo) == store_id(build_tag_fields(s2, lo[1], lo[2], arguments), lo)
        located(s1, with_local) ==
            IF with_local.kind = "Local"
            THEN fields(emit(allocate_with_refcount(s1, data_size, data_alignment, 1),
                             "set_local", with_local.local_id, 0),
                        <<with_local.local_id, 0>>)
            ELSE fields(s1, local_and_offset(with_local.location,
                                             s1.storage.stack_frame_pointer))
        with_local(s1) == located(s1, get(s1, symbol))
    IN  with_local(ensure_value_has_local(self, symbol, stored))

\* WasmBackend::build_tag
build_tag(self, union_layout, tag_id, arguments, symbol, stored) ==
    IF tag_is_null(union_layout, tag_id) THEN build_tag_null(self)
    ELSE
    LET as_data == stores_tag_id_as_data(union_layout, PTR_SIZE)
        in_pointer == stores_tag_id_in_pointer(union_layout, PTR_SIZE)
        sa == data_size_and_alignment(union_layout)
        data_size == sa[1]
        data_alignment == sa[2]
        \* the tag id, once the fields are stored at lo = <<local, offset>>
        store_id(s3, lo) ==
            CASE as_data ->
                    emit(emit(emit(s3, "get_local", lo[1], 0),
                              IF data_alignment = 8 THEN "i64.const" ELSE "i32.const",
                              tag_id, 0),
                         TagIdStoreOp(data_alignment), data_alignment,
                         lo[2] + data_size - data_alignment)
              [] ~as_data /\ in_pointer ->
                    emit(emit(emit(emit(s3, "get_local", lo[1], 0),
                                   "i32.const", tag_id, 0),
                              "i32.or", 0, 0),
                         "set_local", lo[1], 0)
              [] OTHER -> s3
        fields(s2, lo) == store_id(build_tag_fields(s2, lo[1], lo[2], arguments), lo)
        located(s1, with_local) ==
            IF with_local.kind = "Local"
            THEN fields(emit(allocate_with_refcount(s1, data_size, data_alignment, 1),
                             "set_local", with_local.local_id, 0),
                        <<with_local.local_id, 0>>)
            ELSE fields(s1, local_and_offset(with_local.location,
                                             s1.storage.stack_frame_pointer))
        with_local(s1) == located(s1, get(s1, symbol))
    IN  with_local(ensure_value_has_local(self, symbol, stored))

\* the NullableUnwrapped arm without the negation of the id in the else arm
get_tag_id_same_id(self, structure, nullable_id) ==
    LET s1 == load_symbol(self, structure)
        s2 == emit(s1, "i32.eqz", 0, 0)
        s3 == emit(s2, "if", 1, 0)
        s4 == emit(s3, "i32.const", nullable_id, 0)
        s5 == emit(s4, "else", 0, 0)
        s6 == emit(s5, "i32.const", nullable_id, 0)
    IN  emit(s6, "end", 0, 0)

\* WasmBackend::build_get_tag_id
get_tag_id_nullable_unwrapped(self, structure, nullable_id) ==
    LET s1 == load_symbol(self, structure)
        s2 == emit(s1, "i32.eqz", 0, 0)
        s3 == emit(s2, "if", 1, 0)
        s4 == emit(s3, "i32.const", nullable_id, 0)
        s5 == emit(s4, "else", 0, 0)
        s6 == emit(s5, "i32.const", 1 - nullable_id, 0)
    IN  emit(s6, "end", 0, 0)

\* a variant that leaves the else arm of the NullableWrapped case open
build_get_tag_id_unclosed(self, structure, union_layout) ==
    LET u == union_layout
        need_to_close_block == FALSE
        sa == data_size_and_alignment(u)
        close(s2) == IF need_to_close_block THEN emit(s2, "end", 0, 0) ELSE s2
        read_id(s1) ==
            CASE stores_tag_id_as_data(u, PTR_SIZE) ->
                    close(emit(load_symbol(s1, structure), LoadOp("I32", tag_id_size(u)),
                               sa[2], sa[1] - sa[2]))
              [] stores_tag_id_in_pointer(u, PTR_SIZE) ->
                    close(emit(emit(load_symbol(s1, structure), "i32.const", 3, 0),
                               "i32.and", 0, 0))
              [] OTHER -> close(s1)
    IN  CASE u.variant = "NonNullableUnwrapped" -> emit(self, "i32.const", 0, 0)
          [] u.variant = "NullableWrapped" ->
                read_id(emit(emit(emit(emit(load_symbol(self, structure),
                                            "i32.eqz", 0, 0),
                                       "if", 1, 0),
                                  "i32.const", u.nullable_id, 0),
                             "else", 0, 0))
          [] u.variant = "NullableUnwrapped" ->
                read_id(get_tag_id_nullable_unwrapped(self, structure, u.nullable_id))
          [] OTHER -> read_id(self)

build_get_tag_id(self, structure, union_layout) ==
    LET u == union_layout
        need_to_close_block == u.variant = "NullableWrapped"
        sa == data_size_and_alignment(u)
        close(s2) == IF need_to_close_block THEN emit(s2, "end", 0, 0) ELSE s2
        read_id(s1) ==
            CASE stores_tag_id_as_data(u, PTR_SIZE) ->
                    close(emit(load_symbol(s1, structure), LoadOp("I32", tag_id_size(u)),
                               sa[2], sa[1] - sa[2]))
              [] stores_tag_id_in_pointer(u, PTR_SIZE) ->
                    close(emit(emit(load_symbol(s1, structure), "i32.const", 3, 0),
                               "i32.and", 0, 0))
              [] OTHER -> close(s1)
    IN  CASE u.variant = "NonNullableUnwrapped" -> emit(self, "i32.const", 0, 0)
          [] u.variant = "NullableWrapped" ->
                read_id(emit(emit(emit(emit(load_symbol(self, structure),
                                            "i32.eqz", 0, 0),
                                       "if", 1, 0),
                                  "i32.const", u.nullable_id, 0),
                             "else", 0, 0))
          [] u.variant = "NullableUnwrapped" ->
                read_id(get_tag_id_nullable_unwrapped(self, structure, u.nullable_id))
          [] OTHER -> read_id(self)

\* WasmBackend::build_union_at_index: the field list the tag id selects.  In
\* the model u.tags is the tags of NonRecursive and Recursive, the other_tags
\* of NullableWrapped, and the one field list of the unwrapped variants.
union_field_layouts(u, tag_index) ==
    IF u.variant \in {"NonNullableUnwrapped", "NullableUnwrapped"}
    THEN [found |-> TRUE, layouts |-> u.tags[1]]
    ELSE IF tag_index < Len(u.tags)
         THEN [found |-> TRUE, layouts |-> At(u.tags, tag_index)]
         ELSE [found |-> FALSE, layouts |-> <<>>]

\* WasmBackend::build_union_at_index
build_union_at_index(self, structure, tag_id, union_layout, index, symbol) ==
    LET fields == union_field_layouts(union_layout, tag_id)
        field_offset == SumSeq(FieldSizes(Take(fields.layouts, index)))
        read(s2, tag_local_id, tag_offset) ==
            IF stores_tag_id_in_pointer(union_layout, PTR_SIZE)
            THEN LET ptr == get_next_local_id(s2.storage)
                     s3 == create_anonymous_local(s2, "I32")
                     s4 == emit(s3, "get_local", tag_local_id, 0)
                     s5 == emit(s4, "i32.const", 0 - 4, 0)
                     s6 == emit(s5, "i32.and", 0, 0)
                     s7 == emit(s6, "set_local", ptr, 0)
                 IN  copy_value_from_memory(s7, symbol, ptr, tag_offset + field_offset)
            ELSE copy_value_from_memory(s2, symbol, tag_local_id,
                                        tag_offset + field_offset)
        located(s1, stored_with_local) ==
            CASE stored_with_local.kind = "StackMemory" ->
                    LET lo == local_and_offset(stored_with_local.location,
                                               s1.storage.stack_frame_pointer)
                    IN  read(s1, lo[1], lo[2])
              [] stored_with_local.kind = "Local" ->
                    read(s1, stored_with_local.local_id, 0)
              [] OTHER -> fatal(s1, "should have a local variable")
        with_local(s1) == located(s1, get(s1, structure))
    IN  IF ~fields.found THEN fatal(self, "index out of bounds")
        ELSE with_local(ensure_value_has_local(self, structure, get(self, structure)))

\* WasmBackend::build_expr
build_expr(self, sym, expr, layout, stored) ==
    LET wasm_layout == WasmLayoutNew(layout) IN
    CASE expr.k = "Literal" -> load_literal(self, expr.lit, stored, sym)
      [] expr.k = "Call" /\ expr.call_type = "ByName" ->
            build_call_by_name(self, expr.name, expr.arguments, sym, wasm_layout)
      [] expr.k = "Call" /\ expr.call_type = "LowLevel" ->
            build_low_level(self, expr.op, expr.arguments, sym, wasm_layout)
      [] expr.k = "Call" -> fatal(self, "call type")
      [] expr.k = "Struct" -> create_struct(self, sym, layout, expr.fields)
      [] expr.k = "Array" ->
            build_array(self, sym, expr.elems, expr.elem_layout, stored)
      [] expr.k = "EmptyArray" -> build_empty_array(self, stored)
      [] expr.k = "StructAtIndex" ->
            build_struct_at_index(self, sym, expr.index, expr.field_layouts,
                                  expr.structure)
      [] expr.k = "Tag" ->
            build_tag(self, expr.tag_layout, expr.tag_id, expr.arguments, sym, stored)
      [] expr.k = "GetTagId" ->
            build_get_tag_id(self, expr.structure, expr.union_layout)
      [] expr.k = "UnionAtIndex" ->
            build_union_at_index(self, expr.structure, expr.tag_id, expr.union_layout,
                                 expr.index, sym)
      [] OTHER -> fatal(self, "Expression")

---------------------------------------------------------------------------
(* Statements.  A statement of the IR is a record with the fields of the   *)
(* Stmt variant; build_stmt's match arms are the operators below.          *)

Ret(sym) == [k |-> "Ret", sym |-> sym]
Let(sym, expr, layout, following) ==
    [k |-> "Let", sym |-> sym, expr |-> expr, layout |-> layout, following |-> following]
Switch(cond_symbol, cond_layout, branches, default_branch) ==
    [k |-> "Switch", cond_symbol |-> cond_symbol, cond_layout |-> cond_layout,
     branches |-> branches, default_branch |-> default_branch]
Join(id, parameters, body, remainder) ==
    [k |-> "Join", id |-> id, parameters |-> parameters, body |-> body,
     remainder |-> remainder]
Jump(id, arguments) == [k |-> "Jump", id |-> id, arguments |-> arguments]
Refcounting(modify, following) ==
    [k |-> "Refcounting", modify |-> modify, following |-> following]

LiteralInt(v) == [k |-> "Literal", lit |-> [k |-> "Int", v |-> v]]
LiteralStr(bytes) == [k |-> "Literal", lit |-> [k |-> "Str", v |-> bytes]]
CallLowLevel(op, arguments) ==
    [k |-> "Call", call_type |-> "LowLevel", op |-> op, arguments |-> arguments]
CallByName(name, arguments) ==
    [k |-> "Call", call_type |-> "ByName", name |-> name, arguments |-> arguments]
Struct(fields) == [k |-> "Struct", fields |-> fields]
StructAtIndex(index, field_layouts, structure) ==
    [k |-> "StructAtIndex", index |-> index, field_layouts |-> field_layouts,
     structure |-> structure]
Tag(tag_layout, tag_id, arguments) ==
    [k |-> "Tag", tag_layout |-> tag_layout, tag_id |-> tag_id, arguments |-> arguments]
Array(elems, elem_layout) == [k |-> "Array", elems |-> elems, elem_layout |-> elem_layout]
EmptyArray == [k |-> "EmptyArray"]
GetTagId(structure, union_layout) ==
    [k |-> "GetTagId", structure |-> structure, union_layout |-> union_layout]
UnionAtIndex(structure, tag_id, union_layout, index) ==
    [k |-> "UnionAtIndex", structure |-> structure, tag_id |-> tag_id,
     union_layout |-> union_layout, index |-> index]

LAYOUT_UNIT == LayoutStruct(<<>>)

\* the statement context recorded in the instructions: the kind of statement,
\* the symbol it binds or the join point it names, the Switch branches it is
\* nested in, and the bytes of the string literal it lowers
Ctx(stmt, sym, id, guards, note) ==
    [stmt |-> stmt, sym |-> sym, id |-> id, guards |-> guards, note |-> note]

WithCtx(self, c) == [self EXCEPT !.history.ctx = c]

BlockTypeNoResult == 0
BlockTypeOf(value_type) == IF value_type = "I64" THEN 2 ELSE 1

\* WasmBackend::start_block / start_loop / end_block
start_block(self, block_type) ==
    emit([self EXCEPT !.block_depth = @ + 1, !.history.opens = @ + 1,
                      !.history.depths = @ \cup {self.block_depth + 1}],
         "block", block_type, 0)

start_loop(self, block_type) ==
    emit([self EXCEPT !.block_depth = @ + 1, !.history.opens = @ + 1,
                      !.history.depths = @ \cup {self.block_depth + 1}],
         "loop", block_type, 0)

end_block_keeps_depth(self) ==
    emit([self EXCEPT !.history.closes = @ + 1,
                      !.history.depths = @ \cup {self.block_depth}], "end", 0, 0)

end_block(self) ==
    emit([self EXCEPT !.block_depth = @ - 1, !.history.closes = @ + 1,
                      !.history.depths = @ \cup {self.block_depth - 1}], "end", 0, 0)

\* WasmBackend::start_proc
RECURSIVE allocate_args(_, _)
allocate_args(self, args) ==
    IF args = <<>> THEN self
    ELSE allocate_args(allocate(self, WasmLayoutNew(Head(args).layout),
                                Head(args).symbol, "Parameter"),
                       Tail(args))

start_proc(self, proc) ==
    LET method == return_method(WasmLayoutNew(proc.ret_layout))
        s1 == IF method.k = "WriteToPointerArg"
              THEN [self EXCEPT !.storage.arg_types = Append(@, "I32")]
              ELSE self
        s2 == start_block(s1, IF method.k = "Primitive"
                              THEN BlockTypeOf(method.ty) ELSE BlockTypeNoResult)
        declared(s3) ==
            [s3 EXCEPT !.module.function =
                Append(@, [param_types |-> s3.storage.arg_types,
                           ret_type |-> IF method.k = "Primitive"
                                        THEN method.ty ELSE "None"])]
    IN  declared(allocate_args(s2, proc.args))

\* the instructions queued by add_insertion, placed into the body
RECURSIVE ApplyInsertions(_, _, _)
ApplyInsertions(code, insertions, i) ==
    LET here == SelectSeq(insertions, LAMBDA x : x.at = i)
        ins == [j \in 1..Len(here) |-> here[j].ins]
    IN  IF i >= Len(code) THEN ins
        ELSE ins \o <<code[i + 1]>> \o ApplyInsertions(code, insertions, i + 1)

\* CodeBuilder::build_fn_header: the frame push goes before the body, the frame
\* pop and the end of the function after it
build_fn_header(self, local_types, frame_size, frame_pointer) ==
    LET cb == self.code_builder
        by == self.history.ctx
        framed == frame_size # 0 /\ frame_pointer # NoLocal
        aligned == round_up_to_alignment(frame_size, 16)
    IN  [self EXCEPT !.code_builder =
            [cb EXCEPT
               !.local_types = local_types,
               !.preamble = IF framed
                            THEN <<Ins("frame_push", aligned, frame_pointer, by)>>
                            ELSE <<>>,
               !.code = ApplyInsertions(cb.code, cb.insertions, 0)
                        \o (IF framed
                            THEN <<Ins("frame_pop", aligned, frame_pointer, by)>>
                            ELSE <<>>)
                        \o <<Ins("end", 0, 0, by)>>,
               !.insertions = <<>>,
               !.top = NoSym]]

\* WasmBackend::finalize_proc
finalize_proc(self) ==
    LET header(s1) ==
            build_fn_header(s1, s1.storage.local_types, s1.storage.stack_frame_size,
                            s1.storage.stack_frame_pointer)
    IN  header(end_block(self))

\* the finished CodeBuilder is kept, and nothing is cleared
reset_keeps_storage(self) ==
    LET s1 == [self EXCEPT
                 !.module.code_builders = Append(@, self.code_builder),
                 !.code_builder = NewCodeBuilder]
    IN  IF self.block_depth # 0 THEN fatal(s1, "assertion failed: block_depth == 0")
        ELSE s1

\* WasmBackend::reset
reset(self) ==
    LET s1 == [self EXCEPT
                 !.module.code_builders = Append(@, self.code_builder),
                 !.code_builder = NewCodeBuilder,
                 !.storage = NewStorage,
                 !.joinpoint_label_map = <<>>,
                 !.symbol_layouts = <<>>]
    IN  IF self.block_depth # 0 THEN fatal(s1, "assertion failed: block_depth == 0")
        ELSE s1

\* build_stmt, one Stmt::Let of the chain
build_let(self, stmt) ==
    LET wasm_layout == WasmLayoutNew(stmt.layout)
        kind == IF stmt.following.k = "Ret" /\ stmt.following.sym = stmt.sym
                THEN "ReturnValue" ELSE "Variable"
        built(s2, stored) ==
            [(IF stored.kind = "VirtualMachineStack"
              THEN set_top_symbol(
                       SetStored(s2, stmt.sym,
                                 [stored EXCEPT !.vm_state = "Pushed",
                                                !.pushed_at = Len(s2.code_builder.code)]),
                       stmt.sym)
              ELSE s2)
             EXCEPT !.symbol_layouts = Put(@, stmt.sym, stmt.layout)]
        expr(s2) == built(s2, get(s2, stmt.sym))
        allocated(s1) ==
            expr(build_expr(s1, stmt.sym, stmt.expr, stmt.layout, get(s1, stmt.sym)))
    IN  allocated(allocate(self, wasm_layout, stmt.sym, kind))

\* build_stmt, Stmt::Ret
build_ret_br_return(self) == emit(self, "return", 0, 0)

build_ret_br(self) == emit(self, "br", self.block_depth - 1, 0)

build_ret(self, sym) ==
    IF ~HasSym(self, sym) THEN fatal(self, "unwrap on a None value")
    ELSE
    LET stored == get(self, sym)
        s1 == IF stored.kind = "StackMemory"
              THEN LET lo == local_and_offset(stored.location,
                                              self.storage.stack_frame_pointer)
                   IN  copy_memory(self, CopyMemoryConfig(lo[1], lo[2], 0, 0, stored.size,
                                                          stored.alignment_bytes))
              ELSE load_symbols(self, <<sym>>)
    IN  build_ret_br(s1)

\* build_stmt, Stmt::Switch, up to the default branch
RECURSIVE start_blocks(_, _)
start_blocks(self, n) ==
    IF n = 0 THEN self ELSE start_blocks(start_block(self, BlockTypeNoResult), n - 1)

switch_br_if_innermost(self, i) == emit(self, "br_if", 0, 0)

switch_br_if(self, i) == emit(self, "br_if", i, 0)

\* the comparison with the constant of the branch, by the type of the condition
switch_compare(self, cond_type, value) ==
    CASE cond_type = "I32" -> emit(emit(self, "i32.const", value, 0), "i32.eq", 0, 0)
      [] cond_type = "I64" ->
            emit(emit(self, "i64.const", I64FromInt(value).lo, I64FromInt(value).hi),
                 "i64.eq", 0, 0)
      [] cond_type = "F32" -> emit(emit(self, "f32.const", value, 0), "f32.eq", 0, 0)
      [] cond_type = "F64" -> emit(emit(self, "f64.const", value, 0), "f64.eq", 0, 0)

\* a variant that compares a Bool with the constant like any other condition
switch_test_compares_bool(self, cond_symbol, is_bool, cond_type, value, i) ==
    switch_br_if(switch_compare(load_symbols(self, <<cond_symbol>>), cond_type, value), i)

switch_test(self, cond_symbol, is_bool, cond_type, value, i) ==
    LET s1 == load_symbols(self, <<cond_symbol>>)
        s2 == IF is_bool
              THEN IF value = 0 THEN emit(s1, "i32.eqz", 0, 0) ELSE s1
              ELSE switch_compare(s1, cond_type, value)
    IN  switch_br_if(s2, i)

RECURSIVE switch_tests(_, _, _)
switch_tests(self, stmt, i) ==
    IF i >= Len(stmt.branches) THEN self
    ELSE switch_tests(
            switch_test(self, stmt.cond_symbol, stmt.cond_layout.k = "Bool",
                        WasmLayoutNew(stmt.cond_layout).value_type,
                        stmt.branches[i + 1].value, i),
            stmt, i + 1)

build_switch(self, stmt) ==
    LET s1 == ensure_value_has_local(self, stmt.cond_symbol, get(self, stmt.cond_symbol))
        s2 == start_blocks(s1, Len(stmt.branches))
    IN  switch_tests(s2, stmt, 0)

\* build_stmt, Stmt::Join, up to the remainder
RECURSIVE join_params(_, _)
join_params(self, parameters) ==
    IF parameters = <<>> THEN <<self, <<>>>>
    ELSE LET p == Head(parameters)
             collect(s2, rest) == <<rest[1], <<get(s2, p.symbol)>> \o rest[2]>>
             with_local(s2) == collect(s2, join_params(s2, Tail(parameters)))
             allocated(s1) ==
                with_local(ensure_value_has_local(s1, p.symbol, get(s1, p.symbol)))
         IN  allocated(allocate(self, WasmLayoutNew(p.layout), p.symbol, "Variable"))

build_join(self, stmt) ==
    LET labelled(s1, params) ==
            [s1 EXCEPT !.joinpoint_label_map =
                Put(@, stmt.id, [depth |-> s1.block_depth, params |-> params])]
        with_params(r) == labelled(start_block(r[1], BlockTypeNoResult), r[2])
    IN  with_params(join_params(self, stmt.parameters))

\* build_stmt, Stmt::Join, between the remainder and the body
join_loop(self, ret_layout) ==
    LET method == return_method(WasmLayoutNew(ret_layout))
    IN  start_loop(end_block(self),
                   IF method.k = "Primitive" THEN BlockTypeOf(method.ty)
                   ELSE BlockTypeNoResult)

\* build_stmt, Stmt::Jump
jump_args_none(self, arguments, param_storages) == self

RECURSIVE jump_args(_, _, _)
jump_args(self, arguments, param_storages) ==
    IF arguments = <<>> \/ param_storages = <<>> THEN self
    ELSE jump_args(clone_value(self, Head(param_storages),
                               get(self, Head(arguments)), Head(arguments)),
                   Tail(arguments), Tail(param_storages))

jump_levels_innermost(block_depth_now, target) == 0

jump_levels(block_depth_now, target) == block_depth_now - target

build_jump(self, stmt) ==
    IF stmt.id \notin DOMAIN self.joinpoint_label_map
    THEN fatal(self, "no entry found for key")
    ELSE LET jp == self.joinpoint_label_map[stmt.id]
             br(s1) == emit(s1, "br", jump_levels(s1.block_depth, jp.depth), 0)
         IN  br(jump_args(self, stmt.arguments, jp.params))

\* RefcountProcGenerator::expand_refcount_stmt:
\* <<the generator after the call, the expanded statement, the new helper or NoSym>>
expand_refcount_stmt(gen, layout, modify, following) ==
    IF layout.k # "Str" THEN <<gen, following, NoSym>>
    ELSE LET proc_name == "#rc_" \o modify.op \o "_" \o layout.k
             call_result_empty == "#call_result_empty" \o ToString(gen.n)
         IN  <<[procs |-> gen.procs \cup {proc_name}, n |-> gen.n + 1],
               Let(call_result_empty, CallByName(proc_name, <<modify.sym>>),
                   LAYOUT_UNIT, following),
               IF proc_name \in gen.procs THEN NoSym ELSE proc_name>>

\* the helper gets its linker symbol, and no entry in proc_symbols
register_helper_linker_only(self, rc_proc_sym) ==
    [self EXCEPT
       !.linker_symbols =
           Append(@, SymInfo("Function", "Defined", 0, Len(self.proc_symbols),
                             rc_proc_sym, 0, 0))]

\* build_stmt, Stmt::Refcounting, up to the expanded statement
register_helper(self, rc_proc_sym) ==
    LET wasm_fn_index == Len(self.proc_symbols)
        linker_sym_index == Len(self.linker_symbols)
    IN  [self EXCEPT
           !.proc_symbols =
               Append(@, [sym |-> rc_proc_sym, linker_sym_index |-> linker_sym_index]),
           !.linker_symbols =
               Append(@, SymInfo("Function", "Defined", 0, wasm_fn_index,
                                 rc_proc_sym, 0, 0))]

build_refcounting(self, stmt) ==
    IF stmt.modify.sym \notin DOMAIN self.symbol_layouts
    THEN <<fatal(self, "unwrap on a None value"), stmt.following>>
    ELSE LET layout == self.symbol_layouts[stmt.modify.sym]
             expanded(r) ==
                <<IF r[3] # NoSym
                  THEN register_helper([self EXCEPT !.refcount_proc_gen = r[1]], r[3])
                  ELSE [self EXCEPT !.refcount_proc_gen = r[1]],
                  r[2]>>
         IN  expanded(expand_refcount_stmt(self.refcount_proc_gen, layout, stmt.modify,
                                           stmt.following))

---------------------------------------------------------------------------
(* The backend as one record, and back *)

Self ==
    [module |-> module, constant_sym_index_map |-> constant_sym_index_map,
     builtin_sym_index_map |-> builtin_sym_index_map, proc_symbols |-> proc_symbols,
     linker_symbols |-> linker_symbols, code_builder |-> code_builder,
     storage |-> storage, symbol_layouts |-> symbol_layouts,
     block_depth |-> block_depth, joinpoint_label_map |-> joinpoint_label_map,
     debug_current_proc_index |-> debug_current_proc_index,
     refcount_proc_gen |-> refcount_proc_gen, error |-> error, history |-> history]

SetSelf(s) ==
    /\ module' = s.module
    /\ constant_sym_index_map' = s.constant_sym_index_map
    /\ builtin_sym_index_map' = s.builtin_sym_index_map
    /\ proc_symbols' = s.proc_symbols
    /\ linker_symbols' = s.linker_symbols
    /\ code_builder' = s.code_builder
    /\ storage' = s.storage
    /\ symbol_layouts' = s.symbol_layouts
    /\ block_depth' = s.block_depth
    /\ joinpoint_label_map' = s.joinpoint_label_map
    /\ debug_current_proc_index' = s.debug_current_proc_index
    /\ refcount_proc_gen' = s.refcount_proc_gen
    /\ error' = s.error
    /\ history' = s.history

backend_vars ==
    <<module, constant_sym_index_map, builtin_sym_index_map, proc_symbols,
      linker_symbols, code_builder, storage, symbol_layouts, block_depth,
      joinpoint_label_map, debug_current_proc_index, refcount_proc_gen, error,
      history>>

NoJoin == "-"
NoProc == [name |-> NoSym, args |-> <<>>, body |-> [k |-> "None"],
           ret_layout |-> LayoutStruct(<<>>)]

\* WasmBackend::new: one Function symbol per procedure, then the stack pointer
NewBackend(ps) ==
    [module |-> [types |-> <<>>, import |-> <<>>, function |-> <<>>,
                 code_builders |-> <<>>, const_segment |-> <<>>],
     constant_sym_index_map |-> <<>>,
     builtin_sym_index_map |-> <<>>,
     proc_symbols |-> [i \in 1..Len(ps) |-> [sym |-> ps[i].name,
                                             linker_sym_index |-> i - 1]],
     linker_symbols |->
         [i \in 1..Len(ps) |->
             SymInfo("Function", "Defined", 0, i - 1, ps[i].name, 0, 0)]
         \o <<SymInfo("Global", "Defined", WASM_SYM_BINDING_WEAK, 0,
                      "__stack_pointer", 0, 0)>>,
     code_builder |-> NewCodeBuilder,
     storage |-> NewStorage,
     symbol_layouts |-> <<>>,
     block_depth |-> 0,
     joinpoint_label_map |-> <<>>,
     debug_current_proc_index |-> 0,
     refcount_proc_gen |-> [procs |-> {}, n |-> 0],
     error |-> "none",
     history |-> [opens |-> 0, closes |-> 0, depths |-> {}, proc |-> NoProc,
                  loads |-> <<>>,
                  ctx |-> Ctx("Proc", NoSym, NoJoin, <<>>, <<>>)]]

---------------------------------------------------------------------------
(* build_proc and build_stmt as actions.  call_stack holds what build_stmt *)
(* still has to do: the statements to lower and the code that follows a    *)
(* recursive call in the source.                                           *)

Task(t, s, guards) == [t |-> t, s |-> s, guards |-> guards]
StmtTask(s, guards) == Task("stmt", s, guards)

Top(t) == call_stack # <<>> /\ Head(call_stack).t = t
TopStmt(k) == Top("stmt") /\ Head(call_stack).s.k = k

Compiling == error = "none" /\ call_stack # <<>>

StmtCtx(task, sym, id, note) == Ctx(task.s.k, sym, id, task.guards, note)

IdleVm ==
    [status |-> "idle", pc |-> 0, stack |-> <<>>, locals |-> <<>>, labels |-> <<>>,
     mem |-> <<>>, sp |-> 0, heap |-> 0, arg |-> 0, executed |-> {},
     back_edges |-> 0, allocs |-> <<>>]

\* WasmBackend::build_proc, up to the call of build_stmt
BuildProc ==
    /\ error = "none"
    /\ call_stack = <<>>
    /\ procs # <<>>
    /\ vm.status # "running"
    /\ LET proc == Head(procs)
           s0 == [Self EXCEPT !.debug_current_proc_index = @ + 1,
                              !.history = [opens |-> 0, closes |-> 0, depths |-> {},
                                           proc |-> proc, loads |-> <<>>,
                                           ctx |-> Ctx("Proc", proc.name, NoJoin,
                                                       <<>>, <<>>)]]
       IN  /\ SetSelf(start_proc(s0, proc))
           /\ call_stack' = <<StmtTask(proc.body, <<>>),
                              Task("finalize", proc.body, <<>>),
                              Task("reset", proc.body, <<>>)>>
    /\ vm' = IdleVm
    /\ UNCHANGED procs
    /\ UNCHANGED <<interner_vars, dev_vars>>

\* the Stmt::Let arm: the whole chain of Lets, then the statement after it
RECURSIVE build_let_chain(_, _, _)
build_let_chain(self, stmt, guards) ==
    IF stmt.k # "Let" \/ self.error # "none" THEN self
    ELSE LET note == IF stmt.expr.k = "Literal" /\ stmt.expr.lit.k = "Str"
                     THEN stmt.expr.lit.v ELSE <<>>
             s1 == WithCtx(self, Ctx("Let", stmt.sym, NoJoin, guards, note))
         IN  build_let_chain(build_let(s1, stmt), stmt.following, guards)

RECURSIVE AfterLets(_)
AfterLets(stmt) == IF stmt.k = "Let" THEN AfterLets(stmt.following) ELSE stmt

BuildLet ==
    /\ Compiling
    /\ TopStmt("Let")
    /\ LET task == Head(call_stack)
       IN  /\ SetSelf(build_let_chain(Self, task.s, task.guards))
           /\ call_stack' = <<StmtTask(AfterLets(task.s), task.guards)>>
                                \o Tail(call_stack)
    /\ UNCHANGED <<procs, vm>>
    /\ UNCHANGED <<interner_vars, dev_vars>>

BuildRet ==
    /\ Compiling
    /\ TopStmt("Ret")
    /\ LET task == Head(call_stack)
       IN  SetSelf(build_ret(WithCtx(Self, StmtCtx(task, task.s.sym, NoJoin, <<>>)),
                             task.s.sym))
    /\ call_stack' = Tail(call_stack)
    /\ UNCHANGED <<procs, vm>>
    /\ UNCHANGED <<interner_vars, dev_vars>>

\* the Switch branch a statement is nested in: the branch values and the
\* number of the branch, 0 for the default
Guard(stmt, pick) ==
    [cond |-> stmt.cond_symbol,
     vals |-> [i \in 1..Len(stmt.branches) |-> stmt.branches[i].value],
     pick |-> pick]

\* the Stmt::Switch arm up to the default branch; what follows the default
\* branch in the source is done by SwitchBranch, once per branch
BuildSwitch ==
    /\ Compiling
    /\ TopStmt("Switch")
    /\ LET task == Head(call_stack)
           stmt == task.s
       IN  /\ SetSelf(build_switch(WithCtx(Self, StmtCtx(task, stmt.cond_symbol, NoJoin,
                                                         <<>>)), stmt))
           /\ call_stack' =
                <<StmtTask(stmt.default_branch, Append(task.guards, Guard(stmt, 0)))>>
                \o [i \in 1..Len(stmt.branches) |->
                        Task("switch_branch", stmt.branches[i].body,
                             Append(task.guards, Guard(stmt, i)))]
                \o Tail(call_stack)
    /\ UNCHANGED <<procs, vm>>
    /\ UNCHANGED <<interner_vars, dev_vars>>

SwitchBranch ==
    /\ Compiling
    /\ Top("switch_branch")
    /\ LET task == Head(call_stack)
       IN  /\ SetSelf(end_block(WithCtx(Self, Ctx("Switch", NoSym, NoJoin,
                                                  Take(task.guards,
                                                       Len(task.guards) - 1),
                                                  <<>>))))
           /\ call_stack' = <<StmtTask(task.s, task.guards)>> \o Tail(call_stack)
    /\ UNCHANGED <<procs, vm>>
    /\ UNCHANGED <<interner_vars, dev_vars>>

\* the Stmt::Join arm up to the remainder
BuildJoin ==
    /\ Compiling
    /\ TopStmt("Join")
    /\ LET task == Head(call_stack)
           stmt == task.s
       IN  /\ SetSelf(build_join(WithCtx(Self, StmtCtx(task, NoSym, stmt.id, <<>>)), stmt))
           /\ call_stack' = <<StmtTask(stmt.remainder, task.guards),
                              Task("join_loop", stmt, task.guards),
                              Task("join_end", stmt, task.guards)>>
                                \o Tail(call_stack)
    /\ UNCHANGED <<procs, vm>>
    /\ UNCHANGED <<interner_vars, dev_vars>>

\* the Stmt::Join arm between the remainder and the body
JoinLoop ==
    /\ Compiling
    /\ Top("join_loop")
    /\ LET task == Head(call_stack)
       IN  /\ SetSelf(join_loop(WithCtx(Self, Ctx("Join", NoSym, task.s.id, task.guards,
                                                  <<>>)),
                                Head(procs).ret_layout))
           /\ call_stack' = <<StmtTask(task.s.body, task.guards)>> \o Tail(call_stack)
    /\ UNCHANGED <<procs, vm>>
    /\ UNCHANGED <<interner_vars, dev_vars>>

\* the Stmt::Join arm after the body
JoinEnd ==
    /\ Compiling
    /\ Top("join_end")
    /\ LET task == Head(call_stack)
       IN  SetSelf(end_block(WithCtx(Self, Ctx("Join", NoSym, task.s.id, task.guards,
                                               <<>>))))
    /\ call_stack' = Tail(call_stack)
    /\ UNCHANGED <<procs, vm>>
    /\ UNCHANGED <<interner_vars, dev_vars>>

BuildJump ==
    /\ Compiling
    /\ TopStmt("Jump")
    /\ LET task == Head(call_stack)
       IN  SetSelf(build_jump(WithCtx(Self, StmtCtx(task, NoSym, task.s.id, <<>>)),
                              task.s))
    /\ call_stack' = Tail(call_stack)
    /\ UNCHANGED <<procs, vm>>
    /\ UNCHANGED <<interner_vars, dev_vars>>

\* the Stmt::Refcounting arm up to the expanded statement
BuildRefcounting ==
    /\ Compiling
    /\ TopStmt("Refcounting")
    /\ LET task == Head(call_stack)
           r == build_refcounting(WithCtx(Self, StmtCtx(task, task.s.modify.sym, NoJoin,
                                                        <<>>)), task.s)
       IN  /\ SetSelf(r[1])
           /\ call_stack' = <<StmtTask(r[2], task.guards)>> \o Tail(call_stack)
    /\ UNCHANGED <<procs, vm>>
    /\ UNCHANGED <<interner_vars, dev_vars>>

\* build_stmt, any other statement
BuildOther ==
    /\ Compiling
    /\ Top("stmt")
    /\ Head(call_stack).s.k \notin {"Let", "Ret", "Switch", "Join", "Jump", "Refcounting"}
    /\ SetSelf(fatal(WithCtx(Self, StmtCtx(Head(call_stack), NoSym, NoJoin, <<>>)),
                     "statement"))
    /\ UNCHANGED <<procs, vm, call_stack>>
    /\ UNCHANGED <<interner_vars, dev_vars>>

\* build_proc after build_stmt: finalize_proc, then reset
FinalizeProc ==
    /\ Compiling
    /\ Top("finalize")
    /\ SetSelf(finalize_proc(WithCtx(Self, Ctx("Proc", Head(procs).name, NoJoin,
                                               <<>>, <<>>))))
    /\ call_stack' = Tail(call_stack)
    /\ UNCHANGED <<procs, vm>>
    /\ UNCHANGED <<interner_vars, dev_vars>>

Reset ==
    /\ Compiling
    /\ Top("reset")
    /\ SetSelf(reset(Self))
    /\ call_stack' = Tail(call_stack)
    /\ procs' = Tail(procs)
    /\ UNCHANGED vm
    /\ UNCHANGED <<interner_vars, dev_vars>>

InitSelf(s) ==
    /\ module = s.module
    /\ constant_sym_index_map = s.constant_sym_index_map
    /\ builtin_sym_index_map = s.builtin_sym_index_map
    /\ proc_symbols = s.proc_symbols
    /\ linker_symbols = s.linker_symbols
    /\ code_builder = s.code_builder
    /\ storage = s.storage
    /\ symbol_layouts = s.symbol_layouts
    /\ block_depth = s.block_depth
    /\ joinpoint_label_map = s.joinpoint_label_map
    /\ debug_current_proc_index = s.debug_current_proc_index
    /\ refcount_proc_gen = s.refcount_proc_gen
    /\ error = s.error
    /\ history = s.history

InitWith(ps) ==
    /\ InitSelf(NewBackend(ps))
    /\ procs = ps
    /\ call_stack = <<>>
    /\ vm = IdleVm
    /\ NoDev
    /\ NoInterner

---------------------------------------------------------------------------
(* A virtual machine for the emitted code.  It runs the function compiled  *)
(* last, on one argument value, one instruction per step.  An i32 is an    *)
(* integer, an i64 a pair of 32-bit words, the memory a map from the       *)
(* addresses written so far to bytes.                                      *)

\* the function body as it is serialized: the preamble, then the code
Body(cb) == cb.preamble \o cb.code

IsOpener(ins) == ins.op \in {"block", "loop", "if"}

\* the index of the end that closes the block opened at instruction i
RECURSIVE ScanEnd(_, _, _)
ScanEnd(code, j, depth) ==
    IF j > Len(code) THEN j
    ELSE IF IsOpener(code[j]) THEN ScanEnd(code, j + 1, depth + 1)
    ELSE IF code[j].op = "end"
    THEN IF depth = 0 THEN j ELSE ScanEnd(code, j + 1, depth - 1)
    ELSE ScanEnd(code, j + 1, depth)

MatchEnd(code, i) == ScanEnd(code, i + 1, 0)

\* the else of the if at instruction i, or its end if it has no else
RECURSIVE ScanElse(_, _, _)
ScanElse(code, j, depth) ==
    IF j > Len(code) THEN j
    ELSE IF IsOpener(code[j]) THEN ScanElse(code, j + 1, depth + 1)
    ELSE IF code[j].op = "end"
    THEN IF depth = 0 THEN j ELSE ScanElse(code, j + 1, depth - 1)
    ELSE IF code[j].op = "else" /\ depth = 0 THEN j
    ELSE ScanElse(code, j + 1, depth)

\* the openers of the blocks that enclose instruction i, innermost first
RECURSIVE OpenAt(_, _, _, _)
OpenAt(code, j, i, open) ==
    IF j >= i THEN open
    ELSE IF IsOpener(code[j]) THEN OpenAt(code, j + 1, i, <<j>> \o open)
    ELSE IF code[j].op = "end" /\ open # <<>> THEN OpenAt(code, j + 1, i, Tail(open))
    ELSE OpenAt(code, j + 1, i, open)

Enclosing(code, i) == OpenAt(code, 1, i, <<>>)

\* where a branch of n levels at instruction i continues: the loop it names,
\* or the instruction after the end of the block it names; 0 if it names none
BrTarget(code, i, n) ==
    LET open == Enclosing(code, i)
    IN  IF n < 0 \/ n >= Len(open) THEN 0
        ELSE IF code[open[n + 1]].op = "loop" THEN open[n + 1]
        ELSE MatchEnd(code, open[n + 1]) + 1

\* 32-bit two's complement addition and subtraction
Add32(a, b) ==
    CASE a >= 0 /\ b >= 0 ->
            IF a > 2147483647 - b THEN (a + MinI32) + (b + MinI32) ELSE a + b
      [] a < 0 /\ b < 0 ->
            IF a < MinI32 - b THEN (a - MinI32) + (b - MinI32) ELSE a + b
      [] OTHER -> a + b

Sub32(a, b) ==
    IF b = MinI32 THEN Add32(Add32(a, 2147483647), 1) ELSE Add32(a, 0 - b)

\* bitwise or and and of two non-negative integers
RECURSIVE Or32(_, _)
Or32(a, b) ==
    IF a = 0 THEN b ELSE IF b = 0 THEN a
    ELSE (IF a % 2 = 1 THEN 1 ELSE b % 2) + 2 * Or32(a \div 2, b \div 2)

RECURSIVE And32(_, _)
And32(a, b) ==
    IF a = 0 THEN 0 ELSE IF b = 0 THEN 0
    ELSE (IF a % 2 = 1 THEN b % 2 ELSE 0) + 2 * And32(a \div 2, b \div 2)

\* and of two 32-bit integers in two's complement: ~x is -x - 1
AndI32(a, b) ==
    CASE a >= 0 /\ b >= 0 -> And32(a, b)
      [] a >= 0 /\ b < 0 -> a - And32(a, 0 - b - 1)
      [] a < 0 /\ b >= 0 -> b - And32(b, 0 - a - 1)
      [] OTHER -> 0 - Or32(0 - a - 1, 0 - b - 1) - 1

MemByte(mem, a) == IF a \in DOMAIN mem THEN mem[a] ELSE 0
LoadBytes(mem, a, n) == [i \in 1..n |-> MemByte(mem, a + i - 1)]
StoreBytes(mem, a, bytes) ==
    [x \in DOMAIN mem \cup (a..(a + Len(bytes) - 1)) |->
        IF x >= a /\ x < a + Len(bytes) THEN bytes[x - a + 1] ELSE mem[x]]

\* where the machine keeps the arguments passed by pointer, the value returned
\* by pointer, the stack and the heap
ArgAddr(i) == 256 + 32 * i
RetAddr == 512
StackTop == 1024
HeapBase == 4096

VmCode == Body(module.code_builders[Len(module.code_builders)])

\* the value of one argument, and the bytes behind it if it is passed by pointer
ArgValue(layout, i, v) ==
    LET wl == WasmLayoutNew(layout)
        value == v + 16 * (i - 1)
    IN  CASE wl.k = "Primitive" /\ wl.value_type = "I64" -> I64(value, 0)
          [] wl.k = "Primitive" /\ wl.value_type = "F32" -> F32FromBits(value)
          [] wl.k = "Primitive" /\ wl.value_type = "F64" -> F64FromBits(value)
          [] wl.k = "Primitive" /\ wl.value_type = "I32" -> value
          [] OTHER -> ArgAddr(i)

RECURSIVE ArgMem(_, _, _)
ArgMem(args, i, mem) ==
    IF i > Len(args) THEN mem
    ELSE LET wl == WasmLayoutNew(args[i].layout)
         IN  ArgMem(args, i + 1,
                    IF wl.k = "StackMemory"
                    THEN StoreBytes(mem, ArgAddr(i), [j \in 1..wl.size |-> 16 * i + j])
                    ELSE mem)

ZeroOf(value_type) ==
    CASE value_type = "I64" -> I64(0, 0)
      [] value_type = "F32" -> F32FromBits(0)
      [] value_type = "F64" -> F64FromBits(0)
      [] OTHER -> 0

\* the machine at the first instruction of the function compiled for `proc`
VmAt(proc, cb, v) ==
    LET by_ptr == return_method(WasmLayoutNew(proc.ret_layout)).k = "WriteToPointerArg"
    IN  [IdleVm EXCEPT
           !.status = "running",
           !.pc = 1,
           !.locals = (IF by_ptr THEN <<RetAddr>> ELSE <<>>)
                      \o [i \in 1..Len(proc.args) |-> ArgValue(proc.args[i].layout, i, v)]
                      \o [i \in 1..Len(cb.local_types) |-> ZeroOf(cb.local_types[i])],
           !.mem = ArgMem(proc.args, 1, <<>>),
           !.sp = StackTop,
           !.heap = HeapBase,
           !.arg = v]

Operand(m, k) == m.stack[Len(m.stack) - k]
Popped(m, n) == SubSeq(m.stack, 1, Len(m.stack) - n)
Goto(m, stack, pc) == [m EXCEPT !.stack = stack, !.pc = pc]
Bool32(b) == IF b THEN 1 ELSE 0

\* br: the values the label takes are kept, the rest of the block's stack dropped
Branch(m, code, n, stack) ==
    LET open == Enclosing(code, m.pc)
    IN  IF n < 0 \/ n >= Len(open) THEN [m EXCEPT !.status = "trap"]
        ELSE LET opener == code[open[n + 1]]
                 arity == IF opener.op = "loop" THEN 0
                          ELSE IF opener.a = 0 THEN 0 ELSE 1
                 kept == SubSeq(stack, Len(stack) - arity + 1, Len(stack))
             IN  [m EXCEPT
                    !.stack = SubSeq(stack, 1, m.labels[n + 1]) \o kept,
                    !.labels = SubSeq(@, n + 2, Len(@)),
                    !.pc = BrTarget(code, m.pc, n),
                    !.back_edges = IF opener.op = "loop" /\ @ <= MaxCount
                                   THEN @ + 1 ELSE @]

Load(m, ins, value) ==
    [m EXCEPT !.stack = Append(Popped(m, 1), value), !.pc = @ + 1]

Store(m, ins, bytes) ==
    [m EXCEPT !.stack = Popped(m, 2),
              !.mem = StoreBytes(@, Operand(m, 1) + ins.b, bytes),
              !.pc = @ + 1]

\* a call: roc_alloc is a bump allocator; any other function takes its
\* arguments and returns 0 if it returns a value
Call(m, ins, imports, symbols) ==
    LET info == At(symbols, ins.b)
        is_alloc == IF info.def = "Imported"
                    THEN At(imports, ins.a).name = "roc_alloc" ELSE FALSE
        addr == round_up_to_alignment(m.heap, Operand(m, 0))
    IN  IF is_alloc
        THEN [m EXCEPT
                !.stack = Append(Popped(m, 2), addr),
                !.heap = addr + Operand(m, 1),
                !.allocs = Append(@, [size |-> Operand(m, 1), align |-> Operand(m, 0),
                                      addr |-> addr]),
                !.pc = @ + 1]
        ELSE [m EXCEPT
                !.stack = Popped(m, ins.c \div 2)
                          \o (IF ins.c % 2 = 1 THEN <<0>> ELSE <<>>),
                !.pc = @ + 1]

\* one instruction
Exec(m, code, imports, symbols) ==
    LET ins == code[m.pc]
        op == ins.op
        addr == Operand(m, 0) + ins.b
        m1 == [m EXCEPT !.executed = @ \cup {[op |-> op, by |-> ins.by]}]
        values(n) == Goto(m1, Popped(m1, n), m1.pc + 1)
        push(v) == Goto(m1, Append(m1.stack, v), m1.pc + 1)
        binary(v) == Goto(m1, Append(Popped(m1, 2), v), m1.pc + 1)
    IN  CASE op \in {"block", "loop"} ->
                [m1 EXCEPT !.labels = <<Len(m1.stack)>> \o @, !.pc = @ + 1]
          [] op = "if" ->
                LET t == ScanElse(code, m1.pc + 1, 0)
                IN  [m1 EXCEPT
                       !.stack = Popped(m1, 1),
                       !.labels = <<Len(m1.stack) - 1>> \o @,
                       !.pc = IF Operand(m1, 0) # 0 THEN @ + 1
                              ELSE IF code[t].op = "else" THEN t + 1 ELSE t]
          [] op = "else" ->
                [m1 EXCEPT !.pc = MatchEnd(code, Head(Enclosing(code, m1.pc)))]
          [] op = "end" ->
                IF m1.labels = <<>> THEN [m1 EXCEPT !.status = "done"]
                ELSE [m1 EXCEPT !.labels = Tail(@), !.pc = @ + 1]
          [] op = "br" -> Branch(m1, code, ins.a, m1.stack)
          [] op = "br_if" ->
                IF Operand(m1, 0) # 0 THEN Branch(m1, code, ins.a, Popped(m1, 1))
                ELSE values(1)
          [] op \in {"i32.const", "i32.const_mem_addr"} -> push(ins.a)
          [] op = "i64.const" -> push(I64(ins.a, ins.b))
          [] op = "f32.const" -> push(F32FromBits(ins.a))
          [] op = "f64.const" -> push(F64FromBits(ins.a))
          [] op = "get_local" -> push(At(m1.locals, ins.a))
          [] op = "set_local" ->
                [m1 EXCEPT !.locals[ins.a + 1] = Operand(m1, 0),
                           !.stack = Popped(m1, 1), !.pc = @ + 1]
          [] op = "tee_local" ->
                [m1 EXCEPT !.locals[ins.a + 1] = Operand(m1, 0), !.pc = @ + 1]
          [] op = "i32.eqz" ->
                Goto(m1, Append(Popped(m1, 1), Bool32(Operand(m1, 0) = 0)), m1.pc + 1)
          [] op \in {"i32.eq", "i64.eq", "f32.eq", "f64.eq"} -> binary(Bool32(Operand(m1, 1) = Operand(m1, 0)))
          [] op = "i32.add" -> binary(Add32(Operand(m1, 1), Operand(m1, 0)))
          [] op = "i32.sub" -> binary(Sub32(Operand(m1, 1), Operand(m1, 0)))
          [] op = "i32.or" -> binary(Or32(Operand(m1, 1), Operand(m1, 0)))
          [] op = "i32.and" -> binary(AndI32(Operand(m1, 1), Operand(m1, 0)))
          [] op = "i32.load" -> Load(m1, ins, I32FromLeBytes(LoadBytes(m1.mem, addr, 4)))
          [] op = "i64.load" -> Load(m1, ins, I64FromLeBytes(LoadBytes(m1.mem, addr, 8)))
          [] op = "i32.load8_u" -> Load(m1, ins, MemByte(m1.mem, addr))
          [] op = "i32.load16_u" ->
                Load(m1, ins, MemByte(m1.mem, addr) + 256 * MemByte(m1.mem, addr + 1))
          [] op = "i32.store" -> Store(m1, ins, I32ToLeBytes(Operand(m1, 0)))
          [] op = "i64.store" -> Store(m1, ins, I64ToLeBytes(Operand(m1, 0)))
          [] op = "i32.store8" -> Store(m1, ins, SubSeq(I32ToLeBytes(Operand(m1, 0)), 1, 1))
          [] op = "i32.store16" ->
                Store(m1, ins, SubSeq(I32ToLeBytes(Operand(m1, 0)), 1, 2))
          [] op = "call" -> Call(m1, ins, imports, symbols)
          [] op = "frame_push" ->
                [m1 EXCEPT !.sp = @ - ins.a, !.locals[ins.b + 1] = m1.sp - ins.a,
                           !.pc = @ + 1]
          [] op = "frame_pop" -> [m1 EXCEPT !.sp = @ + ins.a, !.pc = @ + 1]
          [] OTHER -> [m1 EXCEPT !.status = "trap"]

\* the machine starts on the function compiled last, with v as the value of
\* the first argument passed by value, v + 16 of the second, and so on
VmStart ==
    /\ error = "none"
    /\ call_stack = <<>>
    /\ module.code_builders # <<>>
    /\ vm.status = "idle"
    /\ \E v \in 0..MaxArg :
          vm' = VmAt(history.proc, module.code_builders[Len(module.code_builders)], v)
    /\ UNCHANGED <<backend_vars, procs, call_stack>>
    /\ UNCHANGED <<interner_vars, dev_vars>>

VmStep ==
    /\ vm.status = "running"
    /\ vm' = Exec(vm, VmCode, module.import, linker_symbols)
    /\ UNCHANGED <<backend_vars, procs, call_stack>>
    /\ UNCHANGED <<interner_vars, dev_vars>>

---------------------------------------------------------------------------
(* The procedures of the control-flow specification: every statement tree  *)
(* of at most MaxNodes Switch, Join and Refcounting statements over the    *)
(* parameters x (an I32) and st (a struct), returning an I32 or a struct.  *)

StructXX == LayoutStruct(<<LayoutI32, LayoutI32>>)

CfLeaves(jps, ret, tag) ==
    (IF ret = "I32"
     THEN {Ret("x"), Let("m" \o tag, LiteralInt(7), LayoutI32, Ret("m" \o tag))}
     ELSE {Ret("st"),
           Let("s" \o tag, Struct(<<"x", "x">>), StructXX, Ret("s" \o tag)),
           Let("s" \o tag, Struct(<<"x", "x">>), StructXX,
               Let("m" \o tag, LiteralInt(7), LayoutI32, Ret("s" \o tag)))})
    \cup {Jump(id, <<"x">>) : id \in jps}

RECURSIVE CfTrees(_, _, _, _)
RECURSIVE CfSeqs(_, _, _, _, _, _)

\* the sequences of trees number i to k, of at most m nodes together
CfSeqs(i, k, m, jps, ret, tag) ==
    IF i > k THEN {<<>>}
    ELSE UNION {{<<t>> \o rest : t \in CfTrees(a, jps, ret, tag \o ToString(i)),
                                 rest \in CfSeqs(i + 1, k, m - a, jps, ret, tag)}
                : a \in 0..m}

CfTrees(n, jps, ret, tag) ==
    CfLeaves(jps, ret, tag) \cup
    (IF n = 0 THEN {}
     ELSE (UNION {{Switch("x", LayoutI32,
                          [i \in 1..b |-> [value |-> i - 1, body |-> c[i + 1]]], c[1])
                   : c \in CfSeqs(1, b + 1, n - 1, jps, ret, tag)}
                  : b \in 1..MaxBranches})
          \cup {Join("j" \o tag, <<[layout |-> LayoutI32, symbol |-> "p" \o tag]>>,
                     c[1], c[2])
                : c \in CfSeqs(1, 2, n - 1, jps \cup {"j" \o tag}, ret, tag)}
          \cup {Let("r" \o tag, LiteralStr(<<97>>), LayoutStr,
                    Refcounting([op |-> "dec", sym |-> "r" \o tag], c))
                : c \in CfTrees(n - 1, jps, ret, tag \o "0")})

Proc(name, args, body, ret_layout) ==
    [name |-> name, args |-> args, body |-> body, ret_layout |-> ret_layout]

CfProcs(n) ==
    {Proc("main", <<[layout |-> LayoutI32, symbol |-> "x"]>>, t, LayoutI32)
        : t \in CfTrees(n, {}, "I32", "")}
    \cup {Proc("main", <<[layout |-> LayoutI32, symbol |-> "x"],
                         [layout |-> StructXX, symbol |-> "st"]>>, t, StructXX)
        : t \in CfTrees(n, {}, "Struct", "")}

InitControl == \E p \in CfProcs(MaxNodes) : InitWith(<<p>>)

NextControl ==
    \/ BuildProc
    \/ BuildLet
    \/ BuildRet
    \/ BuildSwitch
    \/ SwitchBranch
    \/ BuildJoin
    \/ JoinLoop
    \/ JoinEnd
    \/ BuildJump
    \/ BuildRefcounting
    \/ FinalizeProc
    \/ Reset
    \/ VmStart
    \/ VmStep

SpecControl == InitControl /\ [][NextControl]_vars


---------------------------------------------------------------------------
(* Claims about the control flow of the emitted code *)

\* build_stmt is running or has just returned: reset has not yet been reached
InBuildStmt == call_stack # <<>> /\ Head(call_stack).t # "reset"

\* C1: block balance.  For every statement tree, block_depth is the number
\* of start_block/start_loop calls minus the number of end_block calls, it
\* never goes negative and is at least 1 throughout build_stmt, and when reset
\* runs it is 0 with as many blocks closed as opened, so that the assertion
\* in reset never fails.
C1_BlockBalance ==
    /\ block_depth = history.opens - history.closes
    /\ \A d \in history.depths : d >= 0
    /\ InBuildStmt => \A d \in history.depths : d >= 1
    /\ Top("reset") => block_depth = 0 /\ history.opens = history.closes
    /\ (call_stack = <<>> /\ debug_current_proc_index > 0) =>
            block_depth = 0 /\ history.opens = history.closes
    /\ error # "assertion failed: block_depth == 0"

\* a procedure with nested blocks has been compiled and reset has run
C1_Witness ==
    /\ call_stack = <<>>
    /\ debug_current_proc_index = 1
    /\ error = "none"
    /\ history.opens >= 4
    /\ 3 \in history.depths
    /\ Len(module.code_builders) = 1

\* the guard of a Switch branch holds of the condition value v
GuardHolds(g, v) ==
    IF g.pick = 0 THEN \A i \in 1..Len(g.vals) : g.vals[i] # v
    ELSE g.vals[g.pick] = v

GuardsHold(guards, v) == \A k \in 1..Len(guards) : GuardHolds(guards[k], v)

IsPrefix(g, h) == Len(g) <= Len(h) /\ SubSeq(h, 1, Len(g)) = g

\* C2: Switch correctness.  Running the emitted code with the condition equal
\* to the value of branch i executes instructions of branch i's body only, and
\* with a condition equal to no branch value those of the default body only:
\* every instruction executed, and the instruction about to be executed, lies
\* in Switch branches whose guards hold of the condition; and once the run is
\* over, every Switch whose tests ran has had one of its bodies run.
C2_SwitchCorrect ==
    /\ \A e \in vm.executed : GuardsHold(e.by.guards, vm.arg)
    /\ vm.status = "running" => GuardsHold(VmCode[vm.pc].by.guards, vm.arg)
    /\ vm.status = "done" =>
          \A e \in vm.executed :
              e.op = "br_if" =>
                  \E f \in vm.executed :
                      /\ Len(f.by.guards) > Len(e.by.guards)
                      /\ IsPrefix(e.by.guards, f.by.guards)
                      /\ f.by.guards[Len(e.by.guards) + 1].cond = e.by.sym

\* a run is over that took a non-default branch of one Switch and the default
\* branch of a Switch nested in it
C2_Witness ==
    /\ vm.status = "done"
    /\ \E e \in vm.executed :
          /\ Len(e.by.guards) = 2
          /\ Len(e.by.guards[1].vals) = 2
          /\ e.by.guards[1].pick = 2
          /\ e.by.guards[2].pick = 0
          /\ e.by.stmt = "Ret"

\* the functions finished so far, as serialized, in the state that reset leaves
FinishedCode ==
    IF call_stack = <<>> /\ vm.status = "idle"
    THEN {Body(module.code_builders[i]) : i \in 1..Len(module.code_builders)}
    ELSE {}

\* C4: every Jump is a br whose operand counts the blocks between the jump
\* site and the block or loop of its join point, which is never negative,
\* and the branch lands on the loop instruction of that join point: forward,
\* leaving the join point's block, from the remainder, and backward, to the
\* loop header, from the body.
C4_JumpTarget ==
    \A code \in FinishedCode :
        \A i \in 1..Len(code) :
            (code[i].by.stmt = "Jump" /\ code[i].op = "br") =>
                LET levels == code[i].a
                    open == Enclosing(code, i)
                    target == BrTarget(code, i, levels)
                IN  /\ levels >= 0
                    /\ levels < Len(open)
                    /\ code[open[levels + 1]].by.stmt = "Join"
                    /\ code[open[levels + 1]].by.id = code[i].by.id
                    /\ target > 0
                    /\ code[target].op = "loop"
                    /\ code[target].by.stmt = "Join"
                    /\ code[target].by.id = code[i].by.id
                    /\ IF code[open[levels + 1]].op = "loop"
                       THEN target = open[levels + 1] /\ target < i
                       ELSE target = MatchEnd(code, open[levels + 1]) + 1 /\ target > i

\* a finished function has a Jump from the remainder of a join point and a
\* Jump from a Switch in its body
C4_Witness ==
    \E code \in FinishedCode :
        \E i, j \in 1..Len(code) :
            /\ code[i].by.stmt = "Jump" /\ code[i].op = "br" /\ code[i].a >= 1
            /\ code[j].by.stmt = "Jump" /\ code[j].op = "br"
            /\ code[Enclosing(code, i)[code[i].a + 1]].op = "loop"
            /\ code[Enclosing(code, j)[code[j].a + 1]].op = "block"

\* the block opened by start_proc
WrapperBlock(code) ==
    CHOOSE i \in 1..Len(code) : code[i].op = "block" /\ code[i].by.stmt = "Proc"

\* the Lets of a statement tree
RECURSIVE Lets(_)
Lets(stmt) ==
    CASE stmt.k = "Let" -> {stmt} \cup Lets(stmt.following)
      [] stmt.k = "Refcounting" -> Lets(stmt.following)
      [] stmt.k = "Join" -> Lets(stmt.body) \cup Lets(stmt.remainder)
      [] stmt.k = "Switch" ->
            Lets(stmt.default_branch)
            \cup UNION {Lets(stmt.branches[i].body) : i \in 1..Len(stmt.branches)}
      [] OTHER -> {}

\* the value the control-flow procedures return with Ret(sym), as the machine
\* holds it: an i32, or the bytes of a struct
ReturnedValue(proc, sym, m) ==
    LET bound == {l \in Lets(proc.body) : l.sym = sym}
    IN  IF bound = {}
        THEN IF sym = "x" THEN m.arg ELSE LoadBytes(m.mem, ArgAddr(2), 8)
        ELSE IF (CHOOSE l \in bound : TRUE).expr.k = "Literal" THEN 7
        ELSE I32ToLeBytes(m.arg) \o I32ToLeBytes(m.arg)

ReturnsByPointer(proc) ==
    return_method(WasmLayoutNew(proc.ret_layout)).k = "WriteToPointerArg"

\* C5: every Ret is br(block_depth - 1), which leaves the wrapper block opened
\* by start_proc; no return instruction is emitted, so that every exit goes
\* through the end emitted by finalize_proc and the frame pop after it.  A
\* returned symbol in stack memory is copied to offset 0 of local 0 and
\* nothing is pushed; any other value is on the operand stack at the branch.
C5_RetBranch ==
    /\ \A code \in FinishedCode :
          \A i \in 1..Len(code) :
              /\ code[i].op # "return"
              /\ (code[i].by.stmt = "Ret" /\ code[i].op = "br") =>
                    LET target == BrTarget(code, i, code[i].a)
                    IN  /\ code[i].a = Len(Enclosing(code, i)) - 1
                        /\ target = MatchEnd(code, WrapperBlock(code)) + 1
                        /\ code[target - 1].by.stmt = "Proc"
                        /\ \A j \in target..Len(code) :
                              code[j].op \in {"frame_pop", "end"}
                        /\ code[Len(code)].op = "end"
    /\ vm.status = "done" =>
          /\ vm.sp = StackTop
          /\ \A e \in vm.executed :
                (e.by.stmt = "Ret" /\ e.op = "br") =>
                    IF ReturnsByPointer(history.proc)
                    THEN /\ vm.stack = <<>>
                         /\ LoadBytes(vm.mem, At(vm.locals, 0), 8)
                                = ReturnedValue(history.proc, e.by.sym, vm)
                    ELSE vm.stack = <<ReturnedValue(history.proc, e.by.sym, vm)>>

\* a run is over that returned, from inside a loop inside a Switch, a struct
\* built in the stack frame
C5_Witness ==
    /\ vm.status = "done"
    /\ vm.arg = 1
    /\ \E i \in 1..Len(VmCode) : VmCode[i].op = "frame_pop"
    /\ \E e \in vm.executed :
          /\ e.by.stmt = "Ret" /\ e.op = "br"
          /\ e.by.guards # <<>>
          /\ e.by.sym \notin {"x", "st"}
          /\ ReturnsByPointer(history.proc)
    /\ \E e \in vm.executed : e.op = "loop"

---------------------------------------------------------------------------
(* The countdown loop: a join point with one integer parameter, entered    *)
(* from the remainder with the value k, whose body returns the parameter   *)
(* when it is 0 and otherwise jumps back with the parameter less one.      *)

Countdown(k) ==
    Proc("countdown", <<>>,
         Join("loop", <<[layout |-> LayoutI32, symbol |-> "n"]>>,
              Switch("n", LayoutI32, <<[value |-> 0, body |-> Ret("n")]>>,
                     Let("one", LiteralInt(1), LayoutI32,
                         Let("next", CallLowLevel("NumSub", <<"n", "one">>), LayoutI32,
                             Jump("loop", <<"next">>)))),
              Let("start", LiteralInt(k), LayoutI32, Jump("loop", <<"start">>))),
         LayoutI32)

InitLoop == \E k \in 0..MaxCount : InitWith(<<Countdown(k)>>)

NextLoop ==
    \/ BuildProc
    \/ BuildLet
    \/ BuildRet
    \/ BuildSwitch
    \/ SwitchBranch
    \/ BuildJoin
    \/ JoinLoop
    \/ JoinEnd
    \/ BuildJump
    \/ FinalizeProc
    \/ Reset
    \/ VmStart
    \/ VmStep

\* the machine runs the function without pause: an instruction that can be
\* executed is executed
SpecLoop == InitLoop /\ [][NextLoop]_vars /\ WF_vars(VmStep)

\* the value the loop is entered with
StartValue ==
    IF history.proc.name = NoSym THEN 0 - 1
    ELSE history.proc.body.remainder.expr.lit.v

\* C3: join/loop termination.  A run of the code emitted for the countdown
\* loop, entered from the remainder with the value k (5, and every value up
\* to MaxCount), comes to an end, having taken exactly k back-edge branches;
\* the Ret that runs after the loop sees the parameter at 0.
C3_LoopTerminates ==
    (vm.status = "running") ~>
        (/\ vm.status = "done"
         /\ vm.back_edges = StartValue
         /\ vm.stack = <<0>>)

\* the run of the loop entered with 5 is over, after 5 back edges
C3_Witness ==
    /\ vm.status = "done"
    /\ StartValue = 5
    /\ vm.back_edges = 5
    /\ \E e \in vm.executed : e.by.stmt = "Ret" /\ e.by.sym = "n"

---------------------------------------------------------------------------
(* String literals: one module of one or two procedures that hold up to    *)
(* MaxLits string literals between them, of the lengths 0, 7, 8 and 9.     *)
(* Each procedure binds its literals in turn and returns the last one.     *)

LitStrings ==
    {<<>>,
     <<114, 111, 99, 45, 108, 97, 110>>,
     <<114, 111, 99, 45, 108, 97, 110, 103>>,
     <<114, 111, 99, 45, 108, 97, 110, 71>>,
     <<114, 111, 99, 45, 108, 97, 110, 103, 33>>}

LitSym(i) == "s" \o ToString(i)

RECURSIVE LitBody(_, _)
LitBody(strs, i) ==
    Let(LitSym(i), LiteralStr(strs[i]), LayoutStr,
        IF i = Len(strs) THEN Ret(LitSym(i)) ELSE LitBody(strs, i + 1))

LitProc(name, strs) == Proc(name, <<>>, LitBody(strs, 1), LayoutStr)

LitSeqs == UNION {[1..n -> LitStrings] : n \in 1..MaxLits}

LitSessions ==
    {<<LitProc("p1", s)>> : s \in LitSeqs}
    \cup UNION {{<<LitProc("p1", SubSeq(s, 1, j)),
                   LitProc("p2", SubSeq(s, j + 1, Len(s)))>> : j \in 1..(Len(s) - 1)}
                : s \in LitSeqs}

InitLiterals == \E ps \in LitSessions : InitWith(ps)

NextLiterals ==
    \/ BuildProc
    \/ BuildLet
    \/ BuildRet
    \/ FinalizeProc
    \/ Reset
    \/ VmStart
    \/ VmStep

SpecLiterals == InitLiterals /\ [][NextLiterals]_vars

\* the code emitted so far: the finished functions in order, then the one
\* being built
EmittedCode ==
    [i \in 1..Len(module.code_builders) |-> Body(module.code_builders[i])]
    \o <<Body(code_builder)>>

\* the uses of pooled constants in the emitted code: the literal each was
\* emitted for, the address and the linker symbol index it was given
PoolRefs ==
    UNION {{[proc |-> p, string |-> EmittedCode[p][i].by.note,
             addr |-> EmittedCode[p][i].a, sym |-> EmittedCode[p][i].b]
               : i \in {j \in 1..Len(EmittedCode[p]) :
                            EmittedCode[p][j].op = "i32.const_mem_addr"}}
           : p \in 1..Len(EmittedCode)}

\* the bytes the constant segment needs for a set of strings
RECURSIVE PoolBytes(_)
PoolBytes(S) ==
    IF S = {} THEN 0
    ELSE LET s == CHOOSE x \in S : TRUE
         IN  4 + Len(s) + PoolBytes(S \ {s})

\* C6: constant pooling.  Over all the string literals lowered so far in the
\* module, in one procedure or in several: two pooled literals with the same
\* bytes are given the same address and the same linker symbol, two with
\* different bytes different addresses and different linker symbols; the
\* address is that of the string's bytes in the constant segment; and the
\* segment and the linker symbol table hold one entry for each distinct
\* string, however often it occurs.
C6_ConstantPooling ==
    LET refs == PoolRefs
        pooled == {r.string : r \in refs}
        segment == module.const_segment
    IN  /\ \A r1, r2 \in refs :
              /\ r1.string = r2.string => r1.addr = r2.addr /\ r1.sym = r2.sym
              /\ r1.string # r2.string => r1.addr # r2.addr /\ r1.sym # r2.sym
        /\ \A r \in refs :
              LET offset == r.addr - CONST_SEGMENT_BASE_ADDR
                  info == At(linker_symbols, r.sym)
              IN  /\ offset >= 4
                  /\ offset + Len(r.string) <= Len(segment)
                  /\ SubSeq(segment, offset + 1, offset + Len(r.string)) = r.string
                  /\ info.kind = "Data" /\ info.def = "Defined"
                  /\ info.segment_offset = offset
                  /\ info.size = Len(r.string)
        /\ Len(segment) = PoolBytes(pooled)
        /\ Len(linker_symbols) = Len(proc_symbols) + 1 + Cardinality(pooled)

\* two procedures are finished that hold the same 8-byte literal, and the
\* first holds a different pooled literal as well
C6_Witness ==
    /\ call_stack = <<>>
    /\ Len(module.code_builders) = 2
    /\ \E r1, r2, r3 \in PoolRefs :
          /\ r1.proc = 1 /\ r2.proc = 2 /\ r3.proc = 1
          /\ r1.string = r2.string
          /\ Len(r1.string) = 8
          /\ r3.string # r1.string
    /\ Len(module.const_segment) = 25

\* the 8 bytes a string shorter than 8 bytes is held in: the string, zeros,
\* and 0x80 | length in byte 7
InlineBytes(string) ==
    [i \in 1..8 |-> IF i <= Len(string) THEN string[i]
                    ELSE IF i = 8 THEN Or32(128, Len(string)) ELSE 0]

\* the instructions a function holds for the Let of a symbol
LetCode(code, sym) ==
    SelectSeq(code, LAMBDA ins : ins.by.stmt = "Let" /\ ins.by.sym = sym)

\* the procedure compiled last has its Lets lowered
LetsLowered == history.proc.name # NoSym /\ ~TopStmt("Let")

\* the code of the procedure compiled last
LastCode == IF call_stack = <<>> THEN VmCode ELSE Body(code_builder)

\* C7: a string literal shorter than 8 bytes is never pooled.  No such string
\* is in constant_sym_index_map, and the constant segment and the linker
\* symbol table hold nothing but the pooled strings, so lowering it left them
\* as they were; its code is one 8-byte store of a constant, to the value's
\* slot, whose bytes are the string, then zeros, then 0x80 | length in byte 7,
\* and running the function leaves these bytes in the returned value.  A
\* literal of 8 bytes or more is in the pool, and its code takes the address
\* from there.
C7_SmallStrings ==
    /\ \A string \in DOMAIN constant_sym_index_map : Len(string) >= 8
    /\ Len(module.const_segment) = PoolBytes(DOMAIN constant_sym_index_map)
    /\ Len(linker_symbols)
          = Len(proc_symbols) + 1 + Cardinality(DOMAIN constant_sym_index_map)
    /\ LetsLowered =>
          \A l \in Lets(history.proc.body) :
              LET string == l.expr.lit.v
                  c == LetCode(LastCode, l.sym)
              IN  IF Len(string) < 8
                  THEN /\ string \notin DOMAIN constant_sym_index_map
                       /\ Len(c) = 3
                       /\ c[1].op = "get_local"
                       /\ c[2].op = "i64.const"
                       /\ c[3].op = "i64.store"
                       /\ I64ToLeBytes(I64(c[2].a, c[2].b)) = InlineBytes(string)
                       /\ HasSym(Self, l.sym) =>
                             <<c[1].a, c[3].b>>
                                 = local_and_offset(get(Self, l.sym).location,
                                                    storage.stack_frame_pointer)
                  ELSE /\ string \in DOMAIN constant_sym_index_map
                       /\ \E i \in 1..Len(c) : c[i].op = "i32.const_mem_addr"
                       /\ \A i \in 1..Len(c) : c[i].op # "i64.store"
    /\ (vm.status = "done" /\ LetsLowered) =>
          \A l \in Lets(history.proc.body) :
              (l.following.k = "Ret" /\ Len(l.expr.lit.v) < 8) =>
                  LoadBytes(vm.mem, RetAddr, 8) = InlineBytes(l.expr.lit.v)

\* a function has run that holds the empty string, an 8-byte string and, as
\* the value it returns, a 7-byte string
C7_Witness ==
    /\ vm.status = "done"
    /\ \E l1, l2, l3 \in Lets(history.proc.body) :
          /\ Len(l1.expr.lit.v) = 0
          /\ Len(l2.expr.lit.v) = 8
          /\ Len(l3.expr.lit.v) = 7
          /\ l3.following.k = "Ret"
    /\ LoadBytes(vm.mem, RetAddr, 8)[8] = 135
    /\ Cardinality(DOMAIN constant_sym_index_map) = 1

---------------------------------------------------------------------------
(* Expressions: procedures that build a tag of a union and return its tag  *)
(* id, and procedures that build a struct from their arguments and return  *)
(* one of its fields.                                                      *)

MaxFields == 3

\* a pair of 8-byte fields and a 4-byte field, the tag id in the pointer
UnionPair ==
    UnionLayout("Recursive", <<<<LayoutI64, LayoutI64>>, <<LayoutI32>>>>, 0)
\* one tag of two 4-byte fields
UnionSingle == UnionLayout("Recursive", <<<<LayoutI32, LayoutI32>>>>, 0)
\* four tags, the tag id stored after the fields
UnionFour ==
    UnionLayout("Recursive",
                <<<<LayoutI32>>, <<LayoutI32>>, <<LayoutI32>>, <<LayoutI32>>>>, 0)
\* a null tag and one other tag
UnionNullable(nullable_id) ==
    UnionLayout("NullableUnwrapped", <<<<LayoutI32>>>>, nullable_id)
\* a null tag, with the id 1, and two other tags
UnionNullableWrapped ==
    UnionLayout("NullableWrapped", <<<<LayoutI32>>, <<LayoutI32>>>>, 1)

\* the unions, and for each the tag ids and the fields of each tag (none for
\* the null tag)
TagCases ==
    {<<UnionPair, 0, <<"y", "y">>>>, <<UnionPair, 1, <<"x">>>>,
     <<UnionSingle, 0, <<"x", "x">>>>,
     <<UnionFour, 0, <<"x">>>>, <<UnionFour, 3, <<"x">>>>,
     <<UnionNullable(0), 0, <<>>>>, <<UnionNullable(0), 1, <<"x">>>>,
     <<UnionNullable(1), 1, <<>>>>, <<UnionNullable(1), 0, <<"x">>>>,
     <<UnionNullableWrapped, 1, <<>>>>, <<UnionNullableWrapped, 0, <<"x">>>>,
     <<UnionNullableWrapped, 2, <<"x">>>>}

ExprArgs == <<[layout |-> LayoutI32, symbol |-> "x"], [layout |-> LayoutI64, symbol |-> "y"]>>

\* t = Tag ...; g = GetTagId t; return g
TagProc(c) ==
    Proc("tag", ExprArgs,
         Let("t", Tag(c[1], c[2], c[3]), LayoutUnion(c[1]),
             Let("g", GetTagId("t", c[1]), LayoutI32, Ret("g"))),
         LayoutI32)

\* GetTagId of a union value passed as an argument
TagIdProc(u) ==
    Proc("tag_id", <<[layout |-> LayoutUnion(u), symbol |-> "t"]>>,
         Let("g", GetTagId("t", u), LayoutI32, Ret("g")), LayoutI32)

FieldLayouts == {LayoutBool, LayoutI32, LayoutI64}

FieldSym(i) == "a" \o ToString(i)

\* s = Struct {a1, .., an}; f = s.index; return f
StructProc(layouts, index) ==
    Proc("struct", [i \in 1..Len(layouts) |-> [layout |-> layouts[i], symbol |-> FieldSym(i)]],
         Let("s", Struct([i \in 1..Len(layouts) |-> FieldSym(i)]), LayoutStruct(layouts),
             Let("f", StructAtIndex(index, layouts, "s"), layouts[index + 1], Ret("f"))),
         layouts[index + 1])

ExprProcs ==
    {TagProc(c) : c \in TagCases}
    \cup {TagIdProc(UnionNullable(n)) : n \in 0..1}
    \cup UNION {{StructProc(layouts, index) : index \in 0..(Len(layouts) - 1)}
                : layouts \in UNION {[1..n -> FieldLayouts] : n \in 2..MaxFields}}

InitExpr == \E p \in ExprProcs : InitWith(<<p>>)

NextExpr ==
    \/ BuildProc
    \/ BuildLet
    \/ BuildRet
    \/ FinalizeProc
    \/ Reset
    \/ VmStart
    \/ VmStep

SpecExpr == InitExpr /\ [][NextExpr]_vars

---------------------------------------------------------------------------
(* Claims about tags, the refcount header and structs *)

\* a function is finished: the code the machine runs is that of history.proc
Finished == call_stack = <<>> /\ module.code_builders # <<>>

\* the calls of the allocator in a function
AllocSites(code) ==
    {i \in 1..Len(code) :
        /\ code[i].op = "call"
        /\ At(linker_symbols, code[i].b).def = "Imported"
        /\ At(module.import, code[i].a).name = "roc_alloc"}

IsConst(ins, value) == ins.op = "i32.const" /\ ins.a = value

\* C8: refcount header encoding.  Every allocation made for a tag of data
\* size `size` and alignment `alignment` requests size + header_width bytes,
\* header_width being the larger of the pointer size 4 and the alignment,
\* stores the 32-bit value 1 - 1 + INT32_MIN at header_width - 4 from the
\* base and leaves base + header_width on the operand stack: for (16, 8, 1),
\* 24 bytes, INT32_MIN at offset 4 and base + 8.  The count passed is always
\* 1, so the encoding never overflows; the machine sees the same request, the
\* same result and the same bytes in the header.
C8_RefcountHeader ==
    /\ error # "attempt to add with overflow"
    /\ (Finished /\ history.proc.name = "tag") =>
          LET code == VmCode
              sa == data_size_and_alignment(history.proc.body.expr.tag_layout)
              size == sa[1]
              alignment == sa[2]
              header_width == IF alignment > 4 THEN alignment ELSE 4
              header == 0 - 2147483647 - 1
          IN  /\ <<size, alignment>> = <<16, 8>> => header_width = 8
              /\ \A i \in AllocSites(code) :
                    /\ i > 2 /\ i + 7 <= Len(code)
                    /\ IsConst(code[i - 2], size + header_width)
                    /\ IsConst(code[i - 1], alignment)
                    /\ code[i + 1].op = "set_local"
                    /\ code[i + 2].op = "get_local" /\ code[i + 2].a = code[i + 1].a
                    /\ IsConst(code[i + 3], header)
                    /\ code[i + 4].op = "i32.store" /\ code[i + 4].b = header_width - 4
                    /\ code[i + 5].op = "get_local" /\ code[i + 5].a = code[i + 1].a
                    /\ IsConst(code[i + 6], header_width)
                    /\ code[i + 7].op = "i32.add"
                    /\ (vm.status = "running" /\ vm.pc = i + 8) =>
                          /\ vm.allocs # <<>>
                          /\ Operand(vm, 0) = vm.allocs[Len(vm.allocs)].addr + header_width
              /\ \A k \in 1..Len(vm.allocs) :
                    /\ vm.allocs[k].size = size + header_width
                    /\ vm.allocs[k].align = alignment
                    /\ <<size, alignment>> = <<16, 8>> => vm.allocs[k].size = 24
                    /\ vm.status = "done" =>
                          LoadBytes(vm.mem, vm.allocs[k].addr + header_width - 4, 4)
                              = <<0, 0, 0, 128>>

\* the function that builds a tag of 16 bytes of data aligned to 8 has run:
\* one allocation of 24 bytes
C8_Witness ==
    /\ Finished
    /\ vm.status = "done"
    /\ history.proc.name = "tag"
    /\ data_size_and_alignment(history.proc.body.expr.tag_layout) = <<16, 8>>
    /\ Len(vm.allocs) = 1
    /\ vm.allocs[1].size = 24
    /\ vm.allocs[1].align = 8

\* the tag id that a union layout with a null tag marks as null
IsNullTag(u, tag_id) ==
    u.variant \in {"NullableWrapped", "NullableUnwrapped"} /\ u.nullable_id = tag_id

Ops(c) == [i \in 1..Len(c) |-> c[i].op]

MemoryLoads == {"i32.load", "i64.load", "i32.load8_u", "i32.load16_u"}

\* C9: null tag.  The code of a Tag expression whose tag id the union layout
\* marks as null is the one instruction i32.const 0, and the function calls
\* no allocator.  The code of GetTagId on a nullable-unwrapped union is the
\* value (a get_local, or nothing when the value is already on top of the
\* operand stack), i32.eqz and an if/else of two constants, the nullable id
\* when the value is zero and the other id otherwise, with no memory load;
\* the function returns the id of the tag that was built.
C9_NullTag ==
    /\ (Finished /\ history.proc.name = "tag") =>
          LET tag == history.proc.body.expr
              u == tag.tag_layout
              c == LetCode(VmCode, "t")
          IN  IsNullTag(u, tag.tag_id) =>
                  /\ Len(c) = 1
                  /\ IsConst(c[1], 0)
                  /\ AllocSites(VmCode) = {}
                  /\ vm.allocs = <<>>
    /\ (Finished /\ history.proc.name \in {"tag", "tag_id"}) =>
          LET get_id == (CHOOSE l \in Lets(history.proc.body) : l.sym = "g").expr
              u == get_id.union_layout
              c == LetCode(VmCode, "g")
              n == Len(c)
          IN  u.variant = "NullableUnwrapped" =>
                  /\ n \in {6, 7}
                  /\ n = 7 => c[1].op = "get_local"
                  /\ Ops(SubSeq(c, n - 5, n))
                        = <<"i32.eqz", "if", "i32.const", "else", "i32.const", "end">>
                  /\ c[n - 3].a = u.nullable_id
                  /\ c[n - 1].a = 1 - u.nullable_id
                  /\ \A i \in 1..n : c[i].op \notin MemoryLoads
                  /\ vm.status = "done" =>
                        vm.stack = <<IF history.proc.name = "tag"
                                     THEN history.proc.body.expr.tag_id
                                     ELSE 1 - u.nullable_id>>

\* the function that builds the null tag of a nullable-unwrapped union and
\* takes its tag id has run and returned the nullable id, 1
C9_Witness ==
    /\ Finished
    /\ vm.status = "done"
    /\ history.proc.name = "tag"
    /\ history.proc.body.expr.tag_layout.variant = "NullableUnwrapped"
    /\ history.proc.body.expr.tag_layout.nullable_id = 1
    /\ history.proc.body.expr.tag_id = 1
    /\ vm.stack = <<1>>
    /\ \E e \in vm.executed : e.op = "if"

\* the bytes a field of the struct procedures takes
FieldBytes(layout) == IF layout.k = "Bool" THEN 1 ELSE layout.bytes

\* the offset of field k (from 1) when the fields lie one after the other
RECURSIVE PackedOffset(_, _)
PackedOffset(layouts, k) ==
    IF k = 1 THEN 0
    ELSE PackedOffset(layouts, k - 1) + FieldBytes(layouts[k - 1])

\* the offset of field k (from 1) when each field is padded to its own size
RECURSIVE PaddedOffset(_, _)
PaddedOffset(layouts, k) ==
    IF k = 1 THEN 0
    ELSE round_up_to_alignment(PaddedOffset(layouts, k - 1) + FieldBytes(layouts[k - 1]),
                               FieldBytes(layouts[k]))

StoreOps == {"i32.store", "i64.store", "i32.store8", "i32.store16"}

\* the offsets at which the finished struct procedure writes the fields of
\* its struct, in the order of the fields, and the offset at which it reads
\* the field it returns; the struct is the first value of the stack frame
WrittenOffsets ==
    LET c == SelectSeq(LetCode(VmCode, "s"), LAMBDA ins : ins.op \in StoreOps)
    IN  [i \in 1..Len(c) |-> c[i].b]

ReadOffsets ==
    LET c == SelectSeq(LetCode(VmCode, "f"), LAMBDA ins : ins.op \in MemoryLoads)
    IN  [i \in 1..Len(c) |-> c[i].b]

StructFinished == Finished /\ history.proc.name = "struct"

StructLayouts == history.proc.body.layout.fields

---------------------------------------------------------------------------
(* Sessions of several procedures.  Each procedure has names of its own    *)
(* for its arguments, its Lets and its join point, and calls builtins,     *)
(* pools a string, jumps to a join point or drops a string.                *)

MaxProcs == 2

ModSym(name, i) == name \o ToString(i)

ModArgs(i) ==
    <<[layout |-> LayoutStr, symbol |-> ModSym("a", i)],
      [layout |-> LayoutStr, symbol |-> ModSym("b", i)],
      [layout |-> LayoutI32, symbol |-> ModSym("x", i)]>>

\* the bodies of the procedure number i of a session
ModBodies(i) ==
    LET a == ModSym("a", i)
        b == ModSym("b", i)
        x == ModSym("x", i)
        c == ModSym("c", i)
        d == ModSym("d", i)
        n == ModSym("n", i)
        t == ModSym("t", i)
        u == ModSym("u", i)
        w == ModSym("w", i)
        count(s) == Let(n, CallLowLevel("StrCountGraphemes", <<s>>), LayoutI32, Ret(n))
    IN  {\* two builtins
         Let(c, CallLowLevel("StrConcat", <<a, b>>), LayoutStr, count(c)),
         \* one builtin twice, then another
         Let(c, CallLowLevel("StrConcat", <<a, b>>), LayoutStr,
             Let(d, CallLowLevel("StrConcat", <<c, a>>), LayoutStr, count(d))),
         \* the allocator
         Let(t, Tag(UnionSingle, 0, <<x, x>>), LayoutUnion(UnionSingle),
             Let(n, GetTagId(t, UnionSingle), LayoutI32, Ret(n))),
         \* the allocator twice, then a builtin
         Let(t, Tag(UnionPair, 1, <<x>>), LayoutUnion(UnionPair),
             Let(u, Tag(UnionPair, 1, <<x>>), LayoutUnion(UnionPair), count(a))),
         \* a join point
         Join(ModSym("j", i), <<[layout |-> LayoutI32, symbol |-> ModSym("q", i)]>>,
              Ret(ModSym("q", i)), Jump(ModSym("j", i), <<x>>)),
         \* a pooled string and a builtin
         Let(c, LiteralStr(<<114, 111, 99, 45, 108, 97, 110, 103>>), LayoutStr, count(c)),
         \* a string dropped by a refcounting helper
         Let(c, LiteralStr(<<97>>), LayoutStr,
             Refcounting([op |-> "dec", sym |-> c], Ret(x))),
         \* a builtin that returns a Bool
         Let(w, CallLowLevel("StrStartsWith", <<a, b>>), LayoutBool, count(b))}

ModProcs(i) == {Proc(ModSym("p", i), ModArgs(i), body, LayoutI32) : body \in ModBodies(i)}

\* the sessions: procedures number 1 to n, n up to MaxProcs
RECURSIVE ModSeqs(_, _)
ModSeqs(i, n) ==
    IF i > n THEN {<<>>}
    ELSE {<<p>> \o rest : p \in ModProcs(i), rest \in ModSeqs(i + 1, n)}

ModSessions == UNION {ModSeqs(1, n) : n \in 1..MaxProcs}

InitModule == \E ps \in ModSessions : InitWith(ps)

NextModule ==
    \/ BuildProc
    \/ BuildLet
    \/ BuildRet
    \/ BuildJoin
    \/ JoinLoop
    \/ JoinEnd
    \/ BuildJump
    \/ BuildRefcounting
    \/ FinalizeProc
    \/ Reset

SpecModule == InitModule /\ [][NextModule]_vars

\* no compilation of a session fails
ModuleNoError == error = "none"

---------------------------------------------------------------------------
(* Claims about the tables of the module across procedures *)

\* the linker symbols (numbered from 0) of imported functions
ImportedSymbols ==
    {i \in 0..(Len(linker_symbols) - 1) :
        At(linker_symbols, i).kind = "Function" /\ At(linker_symbols, i).def = "Imported"}

\* the calls of imported functions in a function body
ImportCalls(code) ==
    {i \in 1..Len(code) : code[i].op = "call" /\ code[i].b \in ImportedSymbols}

\* the routine an expression is lowered to a call of, "" if none
BuiltinOf(expr) ==
    CASE expr.k = "Tag" /\ ~tag_is_null(expr.tag_layout, expr.tag_id) -> "roc_alloc"
      [] expr.k = "Call" /\ expr.call_type = "LowLevel" /\ expr.op = "StrConcat" ->
            "roc_builtins.str.concat"
      [] expr.k = "Call" /\ expr.call_type = "LowLevel" /\ expr.op = "StrStartsWith" ->
            "roc_builtins.str.starts_with"
      [] expr.k = "Call" /\ expr.call_type = "LowLevel"
            /\ expr.op = "StrCountGraphemes" ->
            "roc_builtins.str.count_grapheme_clusters"
      [] OTHER -> ""

\* C12: builtin imports are deduplicated by routine name.  Whatever calls of
\* call_zig_builtin were made (those of roc_alloc by allocate_with_refcount
\* included), the import section holds one entry per routine name, the linker
\* symbol table holds one undefined imported Function symbol per import, which
\* builtin_sym_index_map gives for the name, and every call emitted for a name
\* carries the function index of that import and the index of that symbol,
\* the same as the first call for the name.
C12_BuiltinImportsDeduplicated ==
    /\ \A k, l \in 1..Len(module.import) :
          module.import[k].name = module.import[l].name => k = l
    /\ \A k \in 0..(Len(module.import) - 1) :
          Cardinality({i \in ImportedSymbols : At(linker_symbols, i).index = k}) = 1
    /\ \A i \in ImportedSymbols :
          /\ At(linker_symbols, i).index < Len(module.import)
          /\ At(linker_symbols, i).flags = WASM_SYM_UNDEFINED
    /\ DOMAIN builtin_sym_index_map =
          {module.import[k].name : k \in 1..Len(module.import)}
    /\ \A name \in DOMAIN builtin_sym_index_map :
          /\ builtin_sym_index_map[name] \in ImportedSymbols
          /\ At(module.import,
                At(linker_symbols, builtin_sym_index_map[name]).index).name = name
    /\ \A p \in 1..Len(EmittedCode) : \A i \in ImportCalls(EmittedCode[p]) :
          At(linker_symbols, EmittedCode[p][i].b).index = EmittedCode[p][i].a
    /\ LetsLowered =>
          \A l \in Lets(history.proc.body) :
             BuiltinOf(l.expr) # "" =>
                LET code == LetCode(LastCode, l.sym)
                IN  /\ ImportCalls(code) # {}
                    /\ \A i \in ImportCalls(code) :
                          /\ At(module.import, code[i].a).name = BuiltinOf(l.expr)
                          /\ code[i].b = builtin_sym_index_map[BuiltinOf(l.expr)]

\* two procedures are finished, with calls of two routines or more, one of
\* them called in both procedures and one called twice in a procedure
C12_Witness ==
    /\ error = "none"
    /\ procs = <<>>
    /\ call_stack = <<>>
    /\ Len(module.code_builders) = 2
    /\ Len(module.import) >= 2
    /\ \E b \in ImportedSymbols :
          /\ \E i \in ImportCalls(EmittedCode[1]) : EmittedCode[1][i].b = b
          /\ \E i \in ImportCalls(EmittedCode[2]) : EmittedCode[2][i].b = b
    /\ \E p \in 1..2 : \E i, j \in ImportCalls(EmittedCode[p]) :
          i # j /\ EmittedCode[p][i].b = EmittedCode[p][j].b

---------------------------------------------------------------------------
(* Claims about refcounting helpers *)

\* the symbols the expanded Refcounting statements bind the helper's result to
CallResultSyms == {"#call_result_empty" \o ToString(n) : n \in 0..MaxNodes}

\* the calls of refcounting helpers in a function body
HelperCalls(code) ==
    {i \in 1..Len(code) :
        /\ code[i].op = "call"
        /\ code[i].by.stmt = "Let"
        /\ code[i].by.sym \in CallResultSyms}

\* every helper generated so far can be called: it has one entry in
\* proc_symbols, whose linker symbol is a Defined Function with the helper's
\* position as its function index
HelpersResolve ==
    /\ error # "Could not find procedure"
    /\ \A h \in refcount_proc_gen.procs :
          /\ Cardinality({i \in 1..Len(proc_symbols) : proc_symbols[i].sym = h}) = 1
          /\ \A i \in 1..Len(proc_symbols) :
                proc_symbols[i].sym = h =>
                   /\ proc_symbols[i].linker_sym_index < Len(linker_symbols)
                   /\ At(linker_symbols, proc_symbols[i].linker_sym_index) =
                         SymInfo("Function", "Defined", 0, i - 1, h, 0, 0)
    \* the expanded statements are lowered to calls of the helper, all but the
    \* one build_stmt is about to take
    /\ \A n \in 0..(refcount_proc_gen.n - 1) :
          LET sym == "#call_result_empty" \o ToString(n)
          IN  \/ TopStmt("Let") /\ Head(call_stack).s.sym = sym
              \/ error # "none"
              \/ \E p \in 1..Len(EmittedCode) : \E i \in HelperCalls(EmittedCode[p]) :
                    EmittedCode[p][i].by.sym = sym
    /\ \A p \in 1..Len(EmittedCode) : \A i \in HelperCalls(EmittedCode[p]) :
          LET ins == EmittedCode[p][i]
          IN  /\ ins.a < Len(proc_symbols)
              /\ At(proc_symbols, ins.a).sym \in refcount_proc_gen.procs
              /\ At(proc_symbols, ins.a).linker_sym_index = ins.b

\* the Refcounting arm of build_stmt, when the expansion has a new helper:
\* both tables grow by the helper's entry, each recording the length the other
\* had, and the expanded statement is what build_stmt takes next, none of it
\* lowered yet
HelperRegisteredFirst ==
    (error = "none" /\ TopStmt("Refcounting")) =>
        IF refcount_proc_gen'.procs = refcount_proc_gen.procs
        THEN proc_symbols' = proc_symbols /\ linker_symbols' = linker_symbols
        ELSE \E h \in refcount_proc_gen'.procs \ refcount_proc_gen.procs :
                /\ proc_symbols' =
                      Append(proc_symbols,
                             [sym |-> h, linker_sym_index |-> Len(linker_symbols)])
                /\ linker_symbols' =
                      Append(linker_symbols,
                             SymInfo("Function", "Defined", 0, Len(proc_symbols),
                                     h, 0, 0))
                /\ code_builder' = code_builder
                /\ call_stack' # <<>>
                /\ Head(call_stack').t = "stmt"
                /\ Head(call_stack').s.k = "Let"
                /\ Head(call_stack').s.expr = CallByName(h, <<Head(call_stack).s.modify.sym>>)

\* C13: a refcounting helper is registered before it is called.  When the
\* expansion of a Refcounting statement yields a new helper, the helper is
\* appended to proc_symbols and a Defined Function symbol to linker_symbols
\* before build_stmt takes the expanded statement; the entry of proc_symbols
\* records the index of the linker symbol, the linker symbol the position of
\* the helper in proc_symbols, and every call of a helper finds it there, so
\* that none fails with 'Could not find procedure'.
C13_HelperRegisteredBeforeCall == []HelpersResolve /\ [][HelperRegisteredFirst]_vars

\* a procedure is finished in which two strings were dropped: the first
\* Refcounting statement made the helper, the second called it again
C13_Witness ==
    /\ error = "none"
    /\ call_stack = <<>>
    /\ refcount_proc_gen.n = 2
    /\ Cardinality(refcount_proc_gen.procs) = 1
    /\ Len(proc_symbols) = 2
    /\ \E p \in 1..Len(EmittedCode) : Cardinality(HelperCalls(EmittedCode[p])) = 2

---------------------------------------------------------------------------
(* Claims about what build_proc resets *)

\* the names a procedure binds: its arguments, its Lets, the parameters of its
\* join points and the results of its expanded Refcounting statements
RECURSIVE JoinsOf(_)
JoinsOf(stmt) ==
    CASE stmt.k = "Let" -> JoinsOf(stmt.following)
      [] stmt.k = "Refcounting" -> JoinsOf(stmt.following)
      [] stmt.k = "Join" -> {stmt} \cup JoinsOf(stmt.body) \cup JoinsOf(stmt.remainder)
      [] OTHER -> {}

ProcSyms(proc) ==
    {proc.args[i].symbol : i \in 1..Len(proc.args)}
    \cup {l.sym : l \in Lets(proc.body)}
    \cup UNION {{j.parameters[i].symbol : i \in 1..Len(j.parameters)}
                : j \in JoinsOf(proc.body)}
    \cup {"#call_result_empty" \o ToString(n) : n \in 0..MaxProcs}

\* a map keeps its entries
MapKept(m, n) == \A k \in DOMAIN m : k \in DOMAIN n /\ n[k] = m[k]

\* between procedures the procedure-scoped state is empty and the module holds
\* one CodeBuilder and one signature per build_proc, in the order of the calls;
\* within a procedure only its own names are bound
ProcStateReset ==
    /\ error = "none" =>
          /\ Len(module.function) = debug_current_proc_index
          /\ Len(module.code_builders) =
                debug_current_proc_index - (IF call_stack = <<>> THEN 0 ELSE 1)
          /\ \A k \in 1..Len(module.code_builders) :
                LET code == Body(module.code_builders[k])
                IN  code[WrapperBlock(code)].by.sym = ModSym("p", k)
    /\ (error = "none" /\ call_stack = <<>>) =>
          /\ storage.symbol_storage_map = <<>>
          /\ storage = NewStorage
          /\ joinpoint_label_map = <<>>
          /\ symbol_layouts = <<>>
          /\ block_depth = 0
          /\ code_builder = NewCodeBuilder
    /\ call_stack # <<>> =>
          /\ DOMAIN storage.symbol_storage_map \subseteq ProcSyms(history.proc)
          /\ DOMAIN symbol_layouts \subseteq ProcSyms(history.proc)
          /\ DOMAIN joinpoint_label_map \subseteq {j.id : j \in JoinsOf(history.proc.body)}

\* no step removes or changes an entry of the module's tables
ModuleStateKept ==
    /\ IsPrefix(linker_symbols, linker_symbols')
    /\ IsPrefix(proc_symbols, proc_symbols')
    /\ IsPrefix(module.import, module'.import)
    /\ IsPrefix(module.types, module'.types)
    /\ IsPrefix(module.function, module'.function)
    /\ IsPrefix(module.code_builders, module'.code_builders)
    /\ IsPrefix(module.const_segment, module'.const_segment)
    /\ MapKept(constant_sym_index_map, constant_sym_index_map')
    /\ MapKept(builtin_sym_index_map, builtin_sym_index_map')
    /\ refcount_proc_gen.procs \subseteq refcount_proc_gen'.procs

\* build_proc as a whole adds one CodeBuilder and one signature
OnePerProc ==
    (call_stack = <<>> /\ call_stack' # <<>>) =>
        /\ Len(module'.function) = Len(module.function) + 1
        /\ module'.code_builders = module.code_builders
        /\ DOMAIN storage'.symbol_storage_map =
              {Head(procs).args[i].symbol : i \in 1..Len(Head(procs).args)}
        /\ joinpoint_label_map' = <<>>
        /\ symbol_layouts' = <<>>

\* C14: procedure-scoped state is reset between procedures and module state
\* is not.  After every build_proc the storage map, joinpoint_label_map and
\* symbol_layouts are empty and block_depth is 0, the module has gained exactly
\* one finished CodeBuilder and one function signature, in the order of the
\* calls, and linker_symbols, proc_symbols, the maps of the constant pool and
\* of the builtins, the import section and the constant segment keep every
\* entry they had; nothing bound in one procedure is bound while the next is
\* compiled.
C14_ProcStateReset == []ProcStateReset /\ [][ModuleStateKept /\ OnePerProc]_vars

\* the second procedure of a session is finished; the first jumped to a join
\* point, the tables hold an import, a pooled string and their linker symbols
C14_Witness ==
    /\ error = "none"
    /\ call_stack = <<>>
    /\ procs = <<>>
    /\ Len(module.code_builders) = 2
    /\ \E i \in 1..Len(EmittedCode[1]) : EmittedCode[1][i].op = "loop"
    /\ Len(module.import) >= 1
    /\ DOMAIN constant_sym_index_map # {}
    /\ Len(linker_symbols) >= 5
    /\ storage = NewStorage

---------------------------------------------------------------------------
(* Procedures with constructs the backend does not support, or whose       *)
(* storage does not fit, among constructs that it lowers.                  *)

MaxLets == 2

ErrArgs ==
    <<[layout |-> LayoutI32, symbol |-> "x"], [layout |-> LayoutStr, symbol |-> "s"],
      [layout |-> StructXX, symbol |-> "st"]>>

IntElem(v) == [k |-> "Literal", lit |-> [k |-> "Int", v |-> v]]

\* expressions with the layout of the symbol they are bound to
SupportedLets ==
    {<<LiteralInt(7), LayoutI32>>,
     <<LiteralInt(7), LayoutI64>>,
     <<Array(<<IntElem(1), IntElem(-2)>>, LayoutI64), LayoutList(LayoutI64)>>,
     <<EmptyArray, LayoutList(LayoutI64)>>,
     <<StructAtIndex(1, <<LayoutI32, LayoutI32>>, "st"), LayoutI32>>}

UnsupportedLets ==
    {<<LiteralStr(<<97>>), LayoutI32>>,
     <<[k |-> "Literal", lit |-> [k |-> "Bool", v |-> 1]], LayoutI64>>,
     <<[k |-> "Literal", lit |-> [k |-> "Float", v |-> 1]], LayoutStr>>,
     <<Array(<<IntElem(1), [k |-> "Literal", lit |-> [k |-> "Str", v |-> <<97>>]]>>,
             LayoutStr), LayoutList(LayoutStr)>>,
     <<Array(<<IntElem(1), [k |-> "Symbol", sym |-> "x"]>>, LayoutI64),
       LayoutList(LayoutI64)>>,
     <<Array(<<IntElem(1)>>, LayoutI64), LayoutI32>>,
     <<EmptyArray, LayoutI32>>,
     <<StructAtIndex(0, <<LayoutI32, LayoutI32>>, "x"), LayoutI32>>,
     <<CallByName("missing", <<"x">>), LayoutI32>>,
     <<CallLowLevel("ListLen", <<"s">>), LayoutI32>>,
     <<[k |-> "Call", call_type |-> "Foreign", arguments |-> <<"x">>], LayoutI32>>,
     <<[k |-> "Reset", sym |-> "x"], LayoutI32>>}

ErrEnds == {Ret("x"), [k |-> "RuntimeError"]}

\* the Lets of a sequence of expressions, bound to v1, v2, .., then the end
RECURSIVE ErrChain(_, _, _)
ErrChain(lets, i, end) ==
    IF i > Len(lets) THEN end
    ELSE Let("v" \o ToString(i), lets[i][1], lets[i][2], ErrChain(lets, i + 1, end))

ErrProcs(name) ==
    {Proc(name, ErrArgs, ErrChain(lets, 1, end), LayoutI32) :
        lets \in UNION {[1..n -> SupportedLets \cup UnsupportedLets] : n \in 0..MaxLets},
        end \in ErrEnds}

\* a procedure alone, or after one that compiles
ErrSessions ==
    {<<p>> : p \in ErrProcs("main")}
    \cup {<<Proc("first", ErrArgs, Ret("x"), LayoutI32), p>> : p \in ErrProcs("main")}

InitErrors == \E ps \in ErrSessions : InitWith(ps)

NextErrors ==
    \/ BuildProc
    \/ BuildLet
    \/ BuildRet
    \/ BuildOther
    \/ FinalizeProc
    \/ Reset

SpecErrors == InitErrors /\ [][NextErrors]_vars

\* the storage class of a layout: the value type of a primitive, or "Frame"
StorageClass(layout) ==
    CASE layout.k = "Int" -> IF layout.bytes <= 4 THEN "I32" ELSE "I64"
      [] layout.k = "Bool" -> "I32"
      [] OTHER -> "Frame"

\* the layout of a symbol of a procedure: an argument or a Let
SymLayout(proc, sym) ==
    IF \E i \in 1..Len(proc.args) : proc.args[i].symbol = sym
    THEN proc.args[CHOOSE i \in 1..Len(proc.args) : proc.args[i].symbol = sym].layout
    ELSE (CHOOSE l \in Lets(proc.body) : l.sym = sym).layout

\* the diagnostic a Let has to end the compilation with, "" if it is lowered
Diagnostic(proc, expr, layout) ==
    LET class == StorageClass(layout) IN
    CASE expr.k = "Literal" ->
            IF \/ expr.lit.k = "Int" /\ class \in {"I32", "I64", "Frame"}
               \/ expr.lit.k \in {"Bool", "Byte"} /\ class = "I32"
               \/ expr.lit.k = "Str" /\ class = "Frame"
            THEN "" ELSE "Literal value"
      [] expr.k = "Array" ->
            IF class # "Frame" THEN "Unexpected storage"
            ELSE IF \A i \in 1..Len(expr.elems) :
                       expr.elems[i].k = "Literal" /\ expr.elems[i].lit.k = "Int"
            THEN ""
            ELSE LET i == CHOOSE i \in 1..Len(expr.elems) :
                             /\ ~(expr.elems[i].k = "Literal"
                                    /\ expr.elems[i].lit.k = "Int")
                             /\ \A j \in 1..(i - 1) :
                                   expr.elems[j].k = "Literal"
                                      /\ expr.elems[j].lit.k = "Int"
                 IN  IF expr.elems[i].k = "Literal" THEN "Handle List Literals"
                     ELSE "Handle List Symbols"
      [] expr.k = "EmptyArray" -> IF class = "Frame" THEN "" ELSE "Unexpected storage"
      [] expr.k = "StructAtIndex" ->
            IF StorageClass(SymLayout(proc, expr.structure)) = "Frame" THEN ""
            ELSE "Unexpected storage"
      [] expr.k = "Call" ->
            (CASE expr.call_type = "ByName" ->
                     IF expr.name \in {"first", "main"} THEN ""
                     ELSE "Could not find procedure"
               [] expr.call_type = "LowLevel" ->
                     IF expr.op \in {"NumAdd", "NumSub", "StrConcat", "StrStartsWith",
                                     "StrCountGraphemes"}
                     THEN "" ELSE "Low level operation"
               [] OTHER -> "call type")
      [] expr.k \in {"Struct", "Tag", "GetTagId"} -> ""
      [] OTHER -> "Expression"

\* the diagnostic of the first construct of a statement that is not lowered
RECURSIVE FirstDiagnostic(_, _)
FirstDiagnostic(proc, stmt) ==
    CASE stmt.k = "Let" ->
            IF Diagnostic(proc, stmt.expr, stmt.layout) # ""
            THEN Diagnostic(proc, stmt.expr, stmt.layout)
            ELSE FirstDiagnostic(proc, stmt.following)
      [] stmt.k = "Ret" -> ""
      [] OTHER -> "statement"

\* a failure is that of the first unsupported construct of the procedure, whose
\* CodeBuilder never reaches the module; while there is no failure that
\* construct is still ahead, and a finished procedure had none
ErrorsAbort ==
    /\ error # "none" =>
          /\ error = FirstDiagnostic(history.proc, history.proc.body)
          /\ call_stack # <<>>
          /\ procs # <<>> /\ Head(procs) = history.proc
          /\ Len(module.code_builders) = debug_current_proc_index - 1
          /\ \A k \in 1..Len(module.code_builders) :
                LET code == Body(module.code_builders[k])
                IN  code[WrapperBlock(code)].by.sym # history.proc.name
    /\ (error = "none" /\ call_stack # <<>>
          /\ FirstDiagnostic(history.proc, history.proc.body) # "") =>
          /\ Top("stmt")
          /\ FirstDiagnostic(history.proc, Head(call_stack).s) =
                FirstDiagnostic(history.proc, history.proc.body)
    /\ (error = "none" /\ call_stack = <<>> /\ history.proc # NoProc) =>
          FirstDiagnostic(history.proc, history.proc.body) = ""

---------------------------------------------------------------------------
(* The layout interner (roc_mono layout/intern.rs).  A layout is a record  *)
(* whose children are interned layouts: indices into the table.  An        *)
(* interner is a record [map, normalized_lambda_set_map, vec, panic]: vec  *)
(* is the table, map gives the index of a layout, panic the assertion that *)
(* failed, if any.                                                         *)

VOID == 0
UNIT == 1
NAKED_RECURSIVE_PTR == 18

Builtin(b) == [k |-> "Builtin", b |-> b]
BuiltinList(elem) == [k |-> "List", elem |-> elem]
StructOf(field_layouts) == [k |-> "Struct", field_layouts |-> field_layouts]
Boxed(inner) == [k |-> "Boxed", inner |-> inner]
\* tags: the fields of each tag, or the fields of the one tag of an unwrapped
\* variant
UnionOf(variant, tags) == [k |-> "Union", variant |-> variant, tags |-> tags]
RecursivePointer(l) == [k |-> "RecursivePointer", l |-> l]
LambdaSet(args, ret, set, representation, full_layout) ==
    [args |-> args, ret |-> ret, set |-> set, representation |-> representation,
     full_layout |-> full_layout]
LambdaSetLayout(ls) == [k |-> "LambdaSet", ls |-> ls]

VOID_NAKED == UnionOf("NonRecursive", <<>>)
UNIT_NAKED == StructOf(<<>>)

\* cache_interned_layouts!: the reserved layouts, in the order of their indices
ReservedLayouts ==
    <<VOID_NAKED, UNIT_NAKED, Builtin("Bool"),
      Builtin("U8"), Builtin("U16"), Builtin("U32"), Builtin("U64"), Builtin("U128"),
      Builtin("I8"), Builtin("I16"), Builtin("I32"), Builtin("I64"), Builtin("I128"),
      Builtin("F32"), Builtin("F64"), Builtin("Decimal"), Builtin("Str"),
      Boxed(VOID), RecursivePointer(VOID)>>

interner_panic(interner, msg) ==
    IF interner.panic # "none" THEN interner ELSE [interner EXCEPT !.panic = msg]

make_normalized_lamdba_set(args, ret, set, representation) ==
    LambdaSet(args, ret, set, representation, VOID)

\* a variant that gives every value a slot of its own
st_insert_always_new(interner, value) ==
    <<[interner EXCEPT !.vec = Append(@, value),
                       !.map = Put(@, value, Len(interner.vec))],
      Len(interner.vec)>>

\* st_impl!, insert: <<the interner after the call, the interned layout>>
st_insert(interner, value) ==
    IF value \in DOMAIN interner.map
    THEN <<interner, interner.map[value]>>
    ELSE <<[interner EXCEPT !.vec = Append(@, value),
                            !.map = Put(@, value, Len(interner.vec))],
           Len(interner.vec)>>

\* st_impl!, get
st_get(interner, key) == At(interner.vec, key)

\* st_impl!, insert_lambda_set: <<the interner after the call, the lambda set>>
st_insert_lambda_set(interner, args, ret, set, representation) ==
    LET normalized_lambda_set == make_normalized_lamdba_set(args, ret, set, representation)
        slot == Len(interner.vec)
        lambda_set == LambdaSet(args, ret, set, representation, slot)
        filled(r) ==
            <<[(IF r[2] = slot THEN r[1]
                ELSE interner_panic(r[1], "assertion failed: slot == filled_slot"))
               EXCEPT !.normalized_lambda_set_map =
                         Put(@, normalized_lambda_set, lambda_set)],
              lambda_set>>
    IN  IF normalized_lambda_set \in DOMAIN interner.normalized_lambda_set_map
        THEN <<interner, interner.normalized_lambda_set_map[normalized_lambda_set]>>
        ELSE filled(st_insert(interner, LambdaSetLayout(lambda_set)))

\* a variant that leaves the recursion pointer as it finds it
reify_recursive_pointer_unresolved(slot, l) == RecursivePointer(l)

\* reify_recursive_layout, Layout::RecursivePointer: the placeholder becomes
\* the slot, a pointer that is already set stays
reify_recursive_pointer(slot, l) ==
    RecursivePointer(IF l = VOID THEN slot ELSE l)

\* mod reify: the layout with its recursion pointers set to the slot, its
\* children interned again: <<the interner after the call, the result>>
RECURSIVE reify_recursive_layout(_, _, _)
RECURSIVE reify_layout(_, _, _)
RECURSIVE reify_layout_slice(_, _, _)
RECURSIVE reify_layout_slice_slice(_, _, _)
RECURSIVE reify_captures(_, _, _)

reify_layout(interner, slot, layout) ==
    LET inserted(r) == st_insert(r[1], r[2])
    IN  inserted(reify_recursive_layout(interner, slot, st_get(interner, layout)))

reify_layout_slice(interner, slot, layouts) ==
    IF layouts = <<>> THEN <<interner, <<>>>>
    ELSE LET rest(r) ==
                LET cons(q) == <<q[1], <<r[2]>> \o q[2]>>
                IN  cons(reify_layout_slice(r[1], slot, Tail(layouts)))
         IN  rest(reify_layout(interner, slot, Head(layouts)))

reify_layout_slice_slice(interner, slot, layouts) ==
    IF layouts = <<>> THEN <<interner, <<>>>>
    ELSE LET rest(r) ==
                LET cons(q) == <<q[1], <<r[2]>> \o q[2]>>
                IN  cons(reify_layout_slice_slice(r[1], slot, Tail(layouts)))
         IN  rest(reify_layout_slice(interner, slot, Head(layouts)))

\* the closures of a lambda set, the captures of each reified
reify_captures(interner, slot, set) ==
    IF set = <<>> THEN <<interner, <<>>>>
    ELSE LET rest(r) ==
                LET cons(q) ==
                        <<q[1], <<[lambda |-> Head(set).lambda, captures |-> r[2]]>>
                                \o q[2]>>
                IN  cons(reify_captures(r[1], slot, Tail(set)))
         IN  rest(reify_layout_slice(interner, slot, Head(set).captures))

reify_lambda_set(interner, slot, lambda_set) ==
    LET with_repr(a, t, s, r) == st_insert_lambda_set(r[1], a[2], t[2], s[2], r[2])
        with_set(a, t, s) == with_repr(a, t, s, reify_layout(s[1], slot,
                                                             lambda_set.representation))
        with_ret(a, t) == with_set(a, t, reify_captures(t[1], slot, lambda_set.set))
        with_args(a) == with_ret(a, reify_layout(a[1], slot, lambda_set.ret))
    IN  with_args(reify_layout_slice(interner, slot, lambda_set.args))

reify_builtin(interner, slot, layout) ==
    LET list(r) == <<r[1], BuiltinList(r[2])>>
    IN  list(reify_layout(interner, slot, layout.elem))

reify_union(interner, slot, layout) ==
    LET union(r) == <<r[1], UnionOf(layout.variant, r[2])>>
    IN  IF layout.variant \in {"NonNullableUnwrapped", "NullableUnwrapped"}
        THEN union(reify_layout_slice(interner, slot, layout.tags))
        ELSE union(reify_layout_slice_slice(interner, slot, layout.tags))

reify_recursive_layout(interner, slot, normalized_layout) ==
    CASE normalized_layout.k = "Builtin" -> <<interner, normalized_layout>>
      [] normalized_layout.k = "List" -> reify_builtin(interner, slot, normalized_layout)
      [] normalized_layout.k = "Struct" ->
            LET struct(r) == <<r[1], StructOf(r[2])>>
            IN  struct(reify_layout_slice(interner, slot,
                                          normalized_layout.field_layouts))
      [] normalized_layout.k = "Boxed" ->
            LET boxed(r) == <<r[1], Boxed(r[2])>>
            IN  boxed(reify_layout(interner, slot, normalized_layout.inner))
      [] normalized_layout.k = "Union" -> reify_union(interner, slot, normalized_layout)
      [] normalized_layout.k = "LambdaSet" ->
            LET lambda_set(r) == <<r[1], LambdaSetLayout(r[2])>>
            IN  lambda_set(reify_lambda_set(interner, slot, normalized_layout.ls))
      [] normalized_layout.k = "RecursivePointer" ->
            <<interner, reify_recursive_pointer(slot, normalized_layout.l)>>

\* a variant that keys only the normalized layout to the slot
key_full_layout_dropped(interner, full_layout, slot) == interner

\* map.insert(full_layout, slot)
key_full_layout(interner, full_layout, slot) ==
    [interner EXCEPT !.map = Put(@, full_layout, slot)]

\* the slot is reserved with a placeholder, the layout reified against it and
\* written into the slot; the normalized and the full layout both map to it.
\* check_old: the debug assertions of the global interner
reserve_and_reify(interner, normalized_layout, check_old) ==
    LET slot == Len(interner.vec)
        reserved == [interner EXCEPT !.vec = Append(@, VOID_NAKED)]
        filled(r) ==
            LET full_layout == r[2]
                written == [r[1] EXCEPT !.vec[slot + 1] = full_layout]
                first == IF check_old /\ normalized_layout \in DOMAIN written.map
                         THEN interner_panic(written, "assertion failed: _old.is_none()")
                         ELSE written
                keyed == [first EXCEPT !.map = Put(@, normalized_layout, slot)]
                second == IF check_old /\ full_layout \in DOMAIN keyed.map
                          THEN interner_panic(
                                   keyed, "assertion failed: _old_full_layout.is_none()")
                          ELSE keyed
            IN  <<key_full_layout(second, full_layout, slot), slot, full_layout>>
    IN  filled(reify_recursive_layout(reserved, slot, normalized_layout))

\* st_impl!, insert_recursive: <<the interner after the call, the slot>>
st_insert_recursive(interner, normalized_layout) ==
    IF normalized_layout \in DOMAIN interner.map
    THEN <<interner, interner.map[normalized_layout]>>
    ELSE LET slotted(r) == <<r[1], r[2]>>
         IN  slotted(reserve_and_reify(interner, normalized_layout, FALSE))

\* fill_reserved_layouts
RECURSIVE fill_reserved_layouts(_, _)
fill_reserved_layouts(interner, i) ==
    IF i > Len(ReservedLayouts) THEN interner
    ELSE fill_reserved_layouts(st_insert(interner, ReservedLayouts[i])[1], i + 1)

\* STLayoutInterner::with_capacity
with_capacity == fill_reserved_layouts(EmptyInterner, 1)

\* GlobalLayoutInterner::insert_hashed, under the lock of the map
insert_hashed(interner, value) ==
    IF value \in DOMAIN interner.map
    THEN <<interner, interner.map[value]>>
    ELSE <<[interner EXCEPT !.vec = Append(@, value),
                            !.map = Put(@, value, Len(interner.vec))],
           Len(interner.vec)>>

\* a variant that finds no lambda set in the global map
known_lambda_set_never(interner, normalized) == FALSE

\* get_or_insert_hashed_normalized_lambda_set, raw_entry_mut: the normalized
\* lambda set has an entry in the global map
known_lambda_set(interner, normalized) ==
    normalized \in DOMAIN interner.normalized_lambda_set_map

\* get_or_insert_hashed_normalized_lambda_set, the lambda set is new: a slot
\* is reserved and filled with the lambda set that names it
lambda_set_or_insert(interner, normalized) ==
    LET slot == Len(interner.vec)
        lambda_set == [normalized EXCEPT !.full_layout = slot]
        lambda_set_layout == LambdaSetLayout(lambda_set)
        pushed == [interner EXCEPT !.vec = Append(@, lambda_set_layout)]
        checked == IF lambda_set_layout \in DOMAIN pushed.map
                   THEN interner_panic(pushed, "assertion failed: _old.is_none()")
                   ELSE pushed
        keyed == [checked EXCEPT !.map = Put(@, lambda_set_layout, slot)]
    IN  [keyed EXCEPT !.normalized_lambda_set_map = Put(@, normalized, lambda_set)]

\* GlobalLayoutInterner::fork: a thread-local interner that has seen nothing
fork == [map |-> <<>>, normalized_lambda_set_map |-> <<>>, vec |-> <<>>]

\* TLLayoutInterner::record (vec holds Some(key) at the indices of its domain)
record(tl, key, interned) == [tl EXCEPT !.vec = Put(@, interned, key)]

\* GlobalLayoutInterner::unwrap, when no fork is left
unwrap(interner) ==
    [map |-> interner.map,
     normalized_lambda_set_map |-> interner.normalized_lambda_set_map,
     vec |-> interner.vec, panic |-> interner.panic]

\* a variant that starts the global interner without the lambda sets
into_global_without_lambda_sets(interner) ==
    [map |-> interner.map, normalized_lambda_set_map |-> <<>>,
     vec |-> interner.vec, panic |-> interner.panic]

\* STLayoutInterner::into_global
into_global(interner) ==
    [map |-> interner.map,
     normalized_lambda_set_map |-> interner.normalized_lambda_set_map,
     vec |-> interner.vec, panic |-> interner.panic]

---------------------------------------------------------------------------
(* The programs that use the interner.  A thread owns one fork and runs a  *)
(* sequence of calls; the registers keep what the calls returned, as the   *)
(* local variables of the tests of intern.rs do.                           *)

MaxThreads == 2
MaxInserts == 2

TEST_ARGS == <<UNIT>>
TEST_RET == UNIT
TEST_SET == <<[lambda |-> "ATTR_ATTR", captures |-> <<UNIT>>]>>
TEST_REPR == UNIT

Op(name) == [op |-> name, value |-> VOID_NAKED]
InsertOp(value) == [op |-> "insert", value |-> value]

\* insert_lambda_set, then the layout of the lambda set interned again
ProgLambda == <<Op("insert_lambda_set"), Op("reintern_lambda_set"), Op("get")>>

\* make_layout, insert_recursive, the resolved layout read and interned
\* again, insert_recursive once more
ProgRecursive ==
    <<Op("make_layout_list"), Op("make_layout_struct"), Op("insert_recursive"),
      Op("get"), Op("reintern"), Op("insert_recursive")>>

\* a reserved layout and two layouts that are new to a fresh interner
InsertValues == <<Builtin("Str"), StructOf(<<16>>), BuiltinList(16)>>

RECURSIVE ProgInserts(_)
ProgInserts(values) ==
    IF values = <<>> THEN <<>>
    ELSE <<InsertOp(Head(values)), Op("get")>> \o ProgInserts(Tail(values))

InsertSeqs ==
    UNION {[1..n -> {InsertValues[i] : i \in 1..Len(InsertValues)}] : n \in 1..MaxInserts}

CoreProgs == {ProgLambda, ProgRecursive, ProgLambda \o ProgRecursive}
\* the programs that run side by side (threads are alike: a session lists
\* the programs of its threads in this order)
ConcProgs ==
    <<ProgLambda, ProgRecursive,
      ProgInserts(<<InsertValues[2], InsertValues[3]>>),
      ProgInserts(<<InsertValues[3], InsertValues[2]>>)>>
SeqProgs == {<<>>} \cup CoreProgs \cup {ProgInserts(values) : values \in InsertSeqs}

Phase(kind, prog) == [kind |-> kind, prog |-> prog]

\* the conversions that follow the first programs: none, unwrap, or unwrap
\* and into_global().fork(), each with a program for the interner it yields
PhasesOf(progs) ==
    {<<>>} \cup {<<Phase("single", p)>> : p \in progs}
           \cup {<<Phase("single", p), Phase("global", q)>> : p \in progs, q \in progs}

InternerSessions ==
    {[progs |-> <<p>>, phases |-> ph] : p \in SeqProgs, ph \in PhasesOf(CoreProgs)}
    \cup UNION {{[progs |-> <<p>>, phases |-> ph] : ph \in PhasesOf({p}) \ {<<>>}} :
                p \in SeqProgs \ {<<>>}}
    \cup UNION {{[progs |-> [t \in 1..n |-> ConcProgs[f[t]]], phases |-> <<>>] :
                     f \in {g \in [1..n -> DOMAIN ConcProgs] :
                               \A t \in 1..(n - 1) : g[t] <= g[t + 1]}} :
                n \in 2..MaxThreads}

NewThread(prog) ==
    [prog |-> prog, pc |-> "ready", a |-> VOID, layout |-> VOID_NAKED,
     in_layout |-> VOID, full |-> VOID_NAKED,
     lambda_set |-> make_normalized_lamdba_set(<<>>, VOID, <<>>, VOID),
     len |-> 0, grew |-> 0, results |-> <<>>]

\* which method of LayoutInterner a call of the program is
CallOf(op) ==
    IF op \in {"make_layout_list", "make_layout_struct", "reintern",
               "reintern_lambda_set", "insert", "insert_normalized"}
    THEN "insert" ELSE op

\* the argument of the call a thread is about to make
CallArg(th) ==
    LET o == Head(th.prog)
    IN  CASE o.op = "make_layout_list" -> BuiltinList(NAKED_RECURSIVE_PTR)
          [] o.op = "make_layout_struct" -> StructOf(<<NAKED_RECURSIVE_PTR>>)
          [] o.op = "reintern" -> th.full
          [] o.op = "insert_normalized" -> th.layout
          [] o.op = "reintern_lambda_set" -> LambdaSetLayout(th.lambda_set)
          [] o.op = "insert" -> o.value
          [] o.op = "insert_lambda_set" ->
                make_normalized_lamdba_set(TEST_ARGS, TEST_RET, TEST_SET, TEST_REPR)
          [] o.op = "insert_recursive" -> th.layout
          [] o.op = "get" -> th.in_layout

\* the thread after its call returned ret: the register the program keeps
\* the value in, and the call in the results (len: the length of the table
\* before the call touched it, grew: the slots the call added)
Returned(th, ret, len, grew) ==
    LET op == Head(th.prog).op
        regs == CASE op = "make_layout_list" -> [th EXCEPT !.a = ret]
                  [] op = "make_layout_struct" ->
                        [th EXCEPT !.layout = UnionOf("Recursive", <<<<th.a>>, <<ret>>>>)]
                  [] op \in {"insert", "reintern", "reintern_lambda_set",
                             "insert_normalized", "insert_recursive"} ->
                        [th EXCEPT !.in_layout = ret]
                  [] op = "insert_lambda_set" ->
                        [th EXCEPT !.lambda_set = ret, !.in_layout = ret.full_layout]
                  [] op = "get" -> [th EXCEPT !.full = ret]
    IN  [regs EXCEPT !.prog = Tail(@), !.pc = "ready", !.len = 0, !.grew = 0,
                     !.results = Append(@, [op |-> op, kind |-> mode, arg |-> CallArg(th),
                                            ret |-> ret,
                                            len |-> IF grew > 0 THEN len ELSE 0,
                                            grew |-> grew])]

Free(l) == locks[l] = 0
Hold(ls, t) == locks' = [l \in DOMAIN locks |-> IF l \in ls THEN t ELSE locks[l]]
Release(ls) == locks' = [l \in DOMAIN locks |-> IF l \in ls THEN 0 ELSE locks[l]]

Starts(t, method) ==
    /\ mode = "global"
    /\ table.panic = "none"
    /\ threads[t].prog # <<>>
    /\ threads[t].pc = "ready"
    /\ CallOf(Head(threads[t].prog).op) = method

Inside(t, pc) ==
    /\ mode = "global"
    /\ table.panic = "none"
    /\ threads[t].pc = pc

Finish(t, tl, ret, len, grew) ==
    /\ forks' = [forks EXCEPT ![t] = tl]
    /\ threads' = [threads EXCEPT ![t] = Returned(@, ret, len, grew)]

Advance(t, pc, len, grew) ==
    /\ threads' = [threads EXCEPT ![t].pc = pc, ![t].len = len, ![t].grew = grew]
    /\ UNCHANGED forks

BackendIdle == UNCHANGED <<backend_vars, procs, call_stack, vm, dev_vars>>

\* TLLayoutInterner::insert: the thread's own map, else insert_hashed under
\* the lock of the global map (and of the vec, when the value is new)
TlInsert(t) ==
    /\ Starts(t, "insert")
    /\ LET value == CallArg(threads[t])
           tl == forks[t]
       IN  IF value \in DOMAIN tl.map
           THEN /\ Finish(t, record(tl, value, tl.map[value]), tl.map[value],
                          Len(table.vec), 0)
                /\ UNCHANGED <<table, locks>>
           ELSE /\ Free("map")
                /\ value \in DOMAIN table.map \/ Free("vec")
                /\ LET r == insert_hashed(table, value)
                   IN  /\ table' = r[1]
                       /\ Finish(t, record([tl EXCEPT !.map = Put(@, value, r[2])],
                                           value, r[2]),
                                 r[2], Len(table.vec), Len(r[1].vec) - Len(table.vec))
                /\ UNCHANGED locks
    /\ UNCHANGED <<mode, phases>>
    /\ BackendIdle

\* TLLayoutInterner::insert_lambda_set: the thread's own map of normalized
\* lambda sets, else the lock of the global one is taken
TlInsertLambdaSet(t) ==
    /\ Starts(t, "insert_lambda_set")
    /\ LET normalized == CallArg(threads[t])
           tl == forks[t]
       IN  IF normalized \in DOMAIN tl.normalized_lambda_set_map
           THEN /\ Finish(t, tl, tl.normalized_lambda_set_map[normalized],
                          Len(table.vec), 0)
                /\ UNCHANGED locks
           ELSE /\ Free("normalized_lambda_set_map")
                /\ Hold({"normalized_lambda_set_map"}, t)
                /\ Advance(t, IF known_lambda_set(table, normalized)
                              THEN "lambda_set_read" ELSE "lambda_set_write",
                           Len(table.vec), 0)
    /\ UNCHANGED <<mode, table, phases>>
    /\ BackendIdle

\* get_or_insert_hashed_normalized_lambda_set, the closure of or_insert_with:
\* the locks of the map and of the vec are taken, the slot written, both
\* released; the lock of the normalized lambda sets stays held
LambdaSetWrite(t) ==
    /\ Inside(t, "lambda_set_write")
    /\ Free("map")
    /\ Free("vec")
    /\ table' = lambda_set_or_insert(table, CallArg(threads[t]))
    /\ Advance(t, "lambda_set_read", Len(table.vec), Len(table'.vec) - Len(table.vec))
    /\ UNCHANGED <<mode, locks, phases>>
    /\ BackendIdle

\* get_or_insert_hashed_normalized_lambda_set, vec.read(): the layout in the
\* slot of the lambda set; then the thread records both
LambdaSetRead(t) ==
    /\ Inside(t, "lambda_set_read")
    /\ Free("vec")
    /\ LET normalized == CallArg(threads[t])
           full_lambda_set == table.normalized_lambda_set_map[normalized]
           full_layout == At(table.vec, full_lambda_set.full_layout)
           tl == forks[t]
       IN  Finish(t, record([tl EXCEPT !.normalized_lambda_set_map =
                                           Put(@, normalized, full_lambda_set)],
                            full_layout, full_lambda_set.full_layout),
                  full_lambda_set, threads[t].len, threads[t].grew)
    /\ Release({"normalized_lambda_set_map"})
    /\ UNCHANGED <<mode, table, phases>>
    /\ BackendIdle

\* TLLayoutInterner::insert_recursive: the thread's own map, else the lock of
\* the global map is taken
TlInsertRecursive(t) ==
    /\ Starts(t, "insert_recursive")
    /\ LET normalized == CallArg(threads[t])
           tl == forks[t]
       IN  IF normalized \in DOMAIN tl.map
           THEN /\ Finish(t, tl, tl.map[normalized], Len(table.vec), 0)
                /\ UNCHANGED locks
           ELSE /\ Free("map")
                /\ Hold({"map"}, t)
                /\ Advance(t, IF normalized \in DOMAIN table.map
                              THEN "recursive_read" ELSE "recursive_write",
                           Len(table.vec), 0)
    /\ UNCHANGED <<mode, table, phases>>
    /\ BackendIdle

\* get_or_insert_hashed_normalized_recursive, the layout is known: vec.read()
RecursiveRead(t) ==
    /\ Inside(t, "recursive_read")
    /\ Free("vec")
    /\ LET normalized == CallArg(threads[t])
           interned == table.map[normalized]
           full_layout == At(table.vec, interned)
           tl == forks[t]
       IN  Finish(t, record([tl EXCEPT !.map = Put(@, normalized, interned)],
                            full_layout, interned),
                  interned, threads[t].len, 0)
    /\ Release({"map"})
    /\ UNCHANGED <<mode, table, phases>>
    /\ BackendIdle

\* get_or_insert_hashed_normalized_recursive, the layout is new: vec.write()
RecursiveWrite(t) ==
    /\ Inside(t, "recursive_write")
    /\ Free("vec")
    /\ Hold({"vec"}, t)
    /\ Advance(t, "recursive_reify", Len(table.vec), 0)
    /\ UNCHANGED <<mode, table, phases>>
    /\ BackendIdle

\* get_or_insert_hashed_normalized_recursive: the lock of the normalized
\* lambda sets is taken, the slot reserved and filled, every lock released
RecursiveReify(t) ==
    /\ Inside(t, "recursive_reify")
    /\ Free("normalized_lambda_set_map")
    /\ LET normalized == CallArg(threads[t])
           r == reserve_and_reify(table, normalized, TRUE)
           tl == forks[t]
       IN  /\ table' = r[1]
           /\ Finish(t, record([tl EXCEPT !.map = Put(@, normalized, r[2])], r[3], r[2]),
                     r[2], Len(table.vec), Len(r[1].vec) - Len(table.vec))
    /\ Release({"map", "vec"})
    /\ UNCHANGED <<mode, phases>>
    /\ BackendIdle

\* TLLayoutInterner::get: the thread's own vec, else vec.read() of the global
TlGet(t) ==
    /\ Starts(t, "get")
    /\ LET key == CallArg(threads[t])
           tl == forks[t]
       IN  IF key \in DOMAIN tl.vec
           THEN /\ Finish(t, tl, tl.vec[key], Len(table.vec), 0)
                /\ UNCHANGED table
           ELSE /\ Free("vec")
                /\ IF key < Len(table.vec)
                   THEN /\ Finish(t, record(tl, At(table.vec, key), key),
                                  At(table.vec, key), Len(table.vec), 0)
                        /\ UNCHANGED table
                   ELSE /\ table' = interner_panic(table, "index out of bounds")
                        /\ UNCHANGED <<forks, threads>>
    /\ UNCHANGED <<mode, locks, phases>>
    /\ BackendIdle

Done == \A t \in DOMAIN threads : threads[t].prog = <<>> /\ threads[t].pc = "ready"

\* GlobalLayoutInterner::unwrap: every thread has ended and dropped its fork;
\* the first thread goes on with the single-threaded interner
Unwrap ==
    /\ mode = "global"
    /\ table.panic = "none"
    /\ Done
    /\ phases # <<>>
    /\ Head(phases).kind = "single"
    /\ mode' = "single"
    /\ table' = unwrap(table)
    /\ forks' = <<>>
    /\ threads' = [threads EXCEPT ![1].prog = Head(phases).prog]
    /\ phases' = Tail(phases)
    /\ UNCHANGED locks
    /\ BackendIdle

\* one call on the STLayoutInterner
StCall ==
    /\ mode = "single"
    /\ table.panic = "none"
    /\ threads[1].prog # <<>>
    /\ LET th == threads[1]
           method == CallOf(Head(th.prog).op)
           arg == CallArg(th)
           r == CASE method = "insert" -> st_insert(table, arg)
                  [] method = "insert_lambda_set" ->
                        st_insert_lambda_set(table, arg.args, arg.ret, arg.set,
                                             arg.representation)
                  [] method = "insert_recursive" -> st_insert_recursive(table, arg)
                  [] method = "get" -> <<table, st_get(table, arg)>>
       IN  /\ table' = r[1]
           /\ threads' = [threads EXCEPT ![1] =
                             Returned(th, r[2], Len(table.vec),
                                      Len(r[1].vec) - Len(table.vec))]
    /\ UNCHANGED <<mode, locks, forks, phases>>
    /\ BackendIdle

\* STLayoutInterner::into_global, then GlobalLayoutInterner::fork
IntoGlobalFork ==
    /\ mode = "single"
    /\ table.panic = "none"
    /\ Done
    /\ phases # <<>>
    /\ Head(phases).kind = "global"
    /\ mode' = "global"
    /\ table' = into_global(table)
    /\ forks' = [t \in {1} |-> fork]
    /\ threads' = [threads EXCEPT ![1].prog = Head(phases).prog]
    /\ phases' = Tail(phases)
    /\ UNCHANGED locks
    /\ BackendIdle

\* GlobalLayoutInterner::with_capacity and one fork for every thread
InitInterner ==
    /\ InitSelf(NewBackend(<<>>))
    /\ procs = <<>>
    /\ call_stack = <<>>
    /\ vm = IdleVm
    /\ NoDev
    /\ mode = "global"
    /\ table = into_global(with_capacity)
    /\ locks = [map |-> 0, normalized_lambda_set_map |-> 0, vec |-> 0]
    /\ \E session \in InternerSessions :
          /\ threads = [t \in DOMAIN session.progs |-> NewThread(session.progs[t])]
          /\ forks = [t \in DOMAIN session.progs |-> fork]
          /\ phases = session.phases

NextInterner ==
    \/ \E t \in DOMAIN threads : TlInsert(t)
    \/ \E t \in DOMAIN threads : TlInsertLambdaSet(t)
    \/ \E t \in DOMAIN threads : LambdaSetWrite(t)
    \/ \E t \in DOMAIN threads : LambdaSetRead(t)
    \/ \E t \in DOMAIN threads : TlInsertRecursive(t)
    \/ \E t \in DOMAIN threads : RecursiveRead(t)
    \/ \E t \in DOMAIN threads : RecursiveWrite(t)
    \/ \E t \in DOMAIN threads : RecursiveReify(t)
    \/ \E t \in DOMAIN threads : TlGet(t)
    \/ Unwrap
    \/ StCall
    \/ IntoGlobalFork

SpecInterner == InitInterner /\ [][NextInterner]_vars

\* no assertion of the interner fails
InternerNoPanic == table.panic = "none"

---------------------------------------------------------------------------
(* Properties of the interner *)

\* the calls of one method that have returned, as <<thread, position>>
ResultsOf(op) ==
    UNION {{<<t, i>> : i \in {j \in DOMAIN threads[t].results :
                                   threads[t].results[j].op = op}} :
           t \in DOMAIN threads}

Result(ti) == threads[ti[1]].results[ti[2]]

\* several threads run side by side, each on its own fork
Concurrent == Len(threads) >= 2

\* the slots of the shared table that hold the layout of a lambda set
LambdaSetSlots ==
    {slot \in 0..(Len(table.vec) - 1) : At(table.vec, slot).k = "LambdaSet"}

\* C16: when several threads, each on its own fork of one global interner,
\* call insert_lambda_set with the same arguments, then in every state of
\* every interleaving the calls that have returned returned one and the same
\* lambda set, its full_layout is the index of the slot that holds its
\* layout, and the shared table has exactly one slot for it: one call
\* allocated it, no other call allocated any.
C16_LambdaSetAgreed ==
    Concurrent =>
        LET rs == ResultsOf("insert_lambda_set")
        IN  /\ \A x \in rs, y \in rs : Result(x).ret = Result(y).ret
            /\ \A x \in rs :
                  /\ Result(x).ret.full_layout \in LambdaSetSlots
                  /\ At(table.vec, Result(x).ret.full_layout)
                        = LambdaSetLayout(Result(x).ret)
                  /\ Result(x).grew \in {0, 1}
            /\ rs # {} =>
                  /\ Cardinality({x \in rs : Result(x).grew = 1}) = 1
                  /\ Cardinality(LambdaSetSlots) = 1

\* two threads have their lambda set; the second thread allocated the slot,
\* the first found it there
C16_Witness ==
    /\ Concurrent
    /\ \E x \in ResultsOf("insert_lambda_set"), y \in ResultsOf("insert_lambda_set") :
          /\ x[1] < y[1]
          /\ Result(x).grew = 0
          /\ Result(y).grew = 1

\* what get(key) gives the thread: its own copy if it has one, else the
\* slot of the shared table
View(t, key) ==
    IF t \in DOMAIN forks /\ key \in DOMAIN forks[t].vec
    THEN forks[t].vec[key]
    ELSE At(table.vec, key)

RECURSIVE PointersInAll(_, _)
RECURSIVE PointersIn(_, _)

\* the targets of the recursion pointers inside the layout interned at key,
\* as the thread reads it (the walk of get_rec_ptr_index, over every child)
PointersIn(t, key) ==
    LET layout == View(t, key)
    IN  CASE layout.k = "RecursivePointer" -> {layout.l}
          [] layout.k = "Builtin" -> {}
          [] layout.k = "List" -> PointersIn(t, layout.elem)
          [] layout.k = "Boxed" -> PointersIn(t, layout.inner)
          [] layout.k = "Struct" -> PointersInAll(t, layout.field_layouts)
          [] layout.k = "Union" ->
                IF layout.variant \in {"NonNullableUnwrapped", "NullableUnwrapped"}
                THEN PointersInAll(t, layout.tags)
                ELSE UNION {PointersInAll(t, layout.tags[i]) : i \in DOMAIN layout.tags}
          [] layout.k = "LambdaSet" ->
                PointersInAll(t, layout.ls.args \o <<layout.ls.ret,
                                                     layout.ls.representation>>)
                \cup UNION {PointersInAll(t, layout.ls.set[i].captures)
                            : i \in DOMAIN layout.ls.set}

PointersInAll(t, keys) == UNION {PointersIn(t, keys[i]) : i \in DOMAIN keys}

\* C17: insert_recursive of one normalized recursive layout returns one and
\* the same slot, whoever calls it and however often: twice through one
\* thread-local or single-threaded interner, through two forks, from threads
\* running side by side; and the layout the caller reads in that slot has
\* recursion pointers, each of them equal to the slot, none the VOID
\* placeholder.
C17_RecursiveAgreed ==
    LET rs == ResultsOf("insert_recursive")
    IN  /\ \A x \in rs, y \in rs :
              Result(x).arg = Result(y).arg => Result(x).ret = Result(y).ret
        /\ \A x \in rs :
              /\ Result(x).ret < Len(table.vec)
              /\ PointersIn(x[1], Result(x).ret) = {Result(x).ret}
              /\ Result(x).ret # VOID

\* two threads side by side: the second allocated the slot, the first found
\* it in the shared table and then again in its own map
C17_Witness ==
    /\ Concurrent
    /\ \E x \in ResultsOf("insert_recursive"), y \in ResultsOf("insert_recursive"),
          z \in ResultsOf("insert_recursive") :
          /\ x[1] < y[1]
          /\ Result(y).grew > 0
          /\ z[1] = x[1]
          /\ z[2] > x[2]

\* the calls a thread made, in order
ResultsAt(t) == threads[t].results

\* C18: a resolved layout interned again gives back its slot.  After
\* insert_recursive returned slot s, get(s) is a layout that differs from
\* the normalized layout that was passed in, and insert(get(s)) returns s;
\* after insert_lambda_set returned ls, insert(Layout::LambdaSet(ls)) returns
\* ls.full_layout; neither insert adds a slot to the table.
C18_ReinternGivesSlot ==
    \A t \in DOMAIN threads :
        \A i \in DOMAIN ResultsAt(t) :
            LET r == ResultsAt(t)[i]
            IN  /\ (r.op = "reintern" /\ i >= 3) =>
                      LET got == ResultsAt(t)[i - 1]
                          rec == ResultsAt(t)[i - 2]
                      IN  (got.op = "get" /\ rec.op = "insert_recursive") =>
                              /\ got.arg = rec.ret
                              /\ got.ret # rec.arg
                              /\ r.arg = got.ret
                              /\ r.ret = rec.ret
                              /\ r.grew = 0
                /\ (r.op = "reintern_lambda_set" /\ i >= 2) =>
                      LET ls == ResultsAt(t)[i - 1]
                      IN  ls.op = "insert_lambda_set" =>
                              /\ r.arg = LambdaSetLayout(ls.ret)
                              /\ r.ret = ls.ret.full_layout
                              /\ r.grew = 0

\* both layouts were interned again: the resolved recursive layout through
\* a fork that found the slot allocated before it, the lambda set by the
\* thread that allocated its slot
C18_Witness ==
    /\ \E t \in DOMAIN threads : \E i \in DOMAIN ResultsAt(t) :
          /\ ResultsAt(t)[i].op = "reintern"
          /\ ResultsAt(t)[i - 2].op = "insert_recursive"
          /\ ResultsAt(t)[i - 2].grew = 0
          /\ ResultsAt(t)[i].kind = "global"
    /\ \E t \in DOMAIN threads : \E i \in DOMAIN ResultsAt(t) :
          /\ ResultsAt(t)[i].op = "reintern_lambda_set"
          /\ ResultsAt(t)[i - 1].op = "insert_lambda_set"
          /\ ResultsAt(t)[i - 1].grew = 1

\* C19: interned results survive the conversions between interner kinds.  A
\* lambda set or a recursive layout interned through a fork and again after
\* unwrap() through the single-threaded interner, or interned through the
\* single-threaded interner and again through into_global().fork(), is given
\* the same result both times, and the second call adds no slot.
C19_ConversionsKeepIndices ==
    \A t \in DOMAIN threads :
        \A i \in DOMAIN ResultsAt(t), j \in DOMAIN ResultsAt(t) :
            LET first == ResultsAt(t)[i]
                again == ResultsAt(t)[j]
            IN  (/\ i < j
                 /\ first.op \in {"insert_lambda_set", "insert_recursive"}
                 /\ again.op = first.op
                 /\ again.kind # first.kind
                 /\ again.arg = first.arg) =>
                    /\ again.ret = first.ret
                    /\ again.grew = 0

\* the kind of the interner that made a call, and whether the call added slots
Called(r, op, kind, allocated) ==
    /\ r.op = op
    /\ r.kind = kind
    /\ (r.grew > 0) = allocated

\* a lambda set allocated through a fork was interned again after unwrap(),
\* and a recursive layout allocated by the single-threaded interner was
\* interned again through into_global().fork()
C19_Witness ==
    \E t \in DOMAIN threads :
        \E i \in DOMAIN ResultsAt(t), j \in DOMAIN ResultsAt(t),
           k \in DOMAIN ResultsAt(t), l \in DOMAIN ResultsAt(t) :
            /\ i < j
            /\ Called(ResultsAt(t)[i], "insert_lambda_set", "global", TRUE)
            /\ Called(ResultsAt(t)[j], "insert_lambda_set", "single", FALSE)
            /\ k < l
            /\ Called(ResultsAt(t)[k], "insert_recursive", "single", TRUE)
            /\ Called(ResultsAt(t)[l], "insert_recursive", "global", FALSE)

\* the calls of insert that have returned, as <<thread, position>>
InsertResults ==
    UNION {{<<t, i>> : i \in {j \in DOMAIN threads[t].results :
                                   CallOf(threads[t].results[j].op) = "insert"}} :
           t \in DOMAIN threads}

\* x returned before y was called, as far as the results tell: the same
\* thread made both, x first
Before(x, y) == x[1] = y[1] /\ x[2] < y[2]

\* C20: for every interner kind and every sequence of insert calls: a value
\* that was interned before gets its old index and the table does not grow; a
\* new value gets the number of values interned before it, so the indices
\* are dense and grow with the table, the 19 reserved layouts holding
\* indices 0..18; and get(insert(v)) = v.
C20_InsertIndices ==
    /\ \A i \in DOMAIN ReservedLayouts :
          /\ i <= Len(table.vec)
          /\ table.vec[i] = ReservedLayouts[i]
    /\ \A x \in InsertResults :
          LET r == Result(x)
          IN  /\ r.grew \in {0, 1}
              /\ r.grew = 1 => r.ret = r.len /\ r.ret >= Len(ReservedLayouts)
              /\ r.ret < Len(table.vec)
              /\ (\E i \in DOMAIN ReservedLayouts : ReservedLayouts[i] = r.arg) =>
                    /\ r.grew = 0
                    /\ ReservedLayouts[r.ret + 1] = r.arg
              /\ (/\ x[2] < Len(ResultsAt(x[1]))
                  /\ ResultsAt(x[1])[x[2] + 1].op = "get") =>
                    /\ ResultsAt(x[1])[x[2] + 1].arg = r.ret
                    /\ ResultsAt(x[1])[x[2] + 1].ret = r.arg
    /\ \A x \in InsertResults, y \in InsertResults :
          /\ Result(x).arg = Result(y).arg => Result(x).ret = Result(y).ret
          /\ Result(x).ret = Result(y).ret => Result(x).arg = Result(y).arg
          /\ (Result(x).arg = Result(y).arg /\ Before(x, y)) => Result(y).grew = 0
          /\ (Result(x).arg = Result(y).arg /\ x # y) =>
                Result(x).grew = 0 \/ Result(y).grew = 0
          /\ (Before(x, y) /\ Result(x).grew = 1 /\ Result(y).grew = 1) =>
                Result(x).ret < Result(y).ret

\* one value went through every kind of interner: a fork gave it a new slot
\* and found it again, the single-threaded interner after unwrap() found it,
\* the fork of into_global() found it and read it back
C20_Witness ==
    \E t \in DOMAIN threads :
        \E i \in DOMAIN ResultsAt(t), j \in DOMAIN ResultsAt(t),
           k \in DOMAIN ResultsAt(t), l \in DOMAIN ResultsAt(t) :
            /\ i < j /\ j < k /\ k < l
            /\ Called(ResultsAt(t)[i], "insert", "global", TRUE)
            /\ Called(ResultsAt(t)[j], "insert", "global", FALSE)
            /\ Called(ResultsAt(t)[k], "insert", "single", FALSE)
            /\ Called(ResultsAt(t)[l], "get", "global", FALSE)
            /\ ResultsAt(t)[j].arg = ResultsAt(t)[i].arg
            /\ ResultsAt(t)[k].arg = ResultsAt(t)[i].arg
            /\ ResultsAt(t)[l].ret = ResultsAt(t)[i].arg
            /\ ResultsAt(t)[l - 1].op = "insert"

---------------------------------------------------------------------------
(* Forks and their parent.  The threads run side by side on forks of one   *)
(* table; beside the programs of the tests a thread may hand the layout    *)
(* that insert_recursive takes to insert, which is a Layout like any other.*)

\* make_layout, then the normalized layout is interned with insert and read
ProgNormalized ==
    <<Op("make_layout_list"), Op("make_layout_struct"), Op("insert_normalized"),
      Op("get")>>

ForkProgs == ConcProgs \o <<ProgNormalized>>

ForkSessions ==
    UNION {{[t \in 1..n |-> ForkProgs[f[t]]] :
               f \in {g \in [1..n -> DOMAIN ForkProgs] :
                         \A t \in 1..(n - 1) : g[t] <= g[t + 1]}} :
           n \in 1..MaxThreads}

InitForks ==
    /\ InitSelf(NewBackend(<<>>))
    /\ procs = <<>>
    /\ call_stack = <<>>
    /\ vm = IdleVm
    /\ NoDev
    /\ mode = "global"
    /\ table = into_global(with_capacity)
    /\ locks = [map |-> 0, normalized_lambda_set_map |-> 0, vec |-> 0]
    /\ \E progs \in ForkSessions :
          /\ threads = [t \in DOMAIN progs |-> NewThread(progs[t])]
          /\ forks = [t \in DOMAIN progs |-> fork]
    /\ phases = <<>>

NextForks ==
    \/ \E t \in DOMAIN threads : TlInsert(t)
    \/ \E t \in DOMAIN threads : TlInsertLambdaSet(t)
    \/ \E t \in DOMAIN threads : LambdaSetWrite(t)
    \/ \E t \in DOMAIN threads : LambdaSetRead(t)
    \/ \E t \in DOMAIN threads : TlInsertRecursive(t)
    \/ \E t \in DOMAIN threads : RecursiveRead(t)
    \/ \E t \in DOMAIN threads : RecursiveWrite(t)
    \/ \E t \in DOMAIN threads : RecursiveReify(t)
    \/ \E t \in DOMAIN threads : TlGet(t)

SpecForks == InitForks /\ [][NextForks]_vars

\* the calls that returned an index: <<thread, position, index>>
Interned ==
    UNION {{<<t, i, IF threads[t].results[i].op = "insert_lambda_set"
                    THEN threads[t].results[i].ret.full_layout
                    ELSE threads[t].results[i].ret>> :
               i \in {j \in DOMAIN threads[t].results :
                         threads[t].results[j].op # "get"}} :
           t \in DOMAIN threads}

\* GlobalLayoutInterner::get, when no thread writes the vec
ParentGet(key) == At(table.vec, key)

\* C21: every value interned through a fork is available in the parent: once
\* insert, insert_lambda_set or insert_recursive returned index i on one
\* fork, get(i) on the parent and on every fork gives one and the same
\* layout, and no fork's cache holds for an index a layout other than the
\* parent's entry (in particular not the placeholder of a recursive slot).
C21_ForksAgreeWithParent ==
    /\ \A x \in Interned :
          /\ x[3] < Len(table.vec)
          /\ locks.vec = 0 =>
                \A t \in DOMAIN forks : View(t, x[3]) = ParentGet(x[3])
    /\ \A t \in DOMAIN forks : \A key \in DOMAIN forks[t].vec :
          /\ key < Len(table.vec)
          /\ locks.vec = 0 => forks[t].vec[key] = ParentGet(key)

\* what does hold of a cache: the layout it has for an index is one the
\* parent's map sends to that index
C21_CacheKeyedInParent ==
    \A t \in DOMAIN forks : \A key \in DOMAIN forks[t].vec :
        /\ forks[t].vec[key] \in DOMAIN table.map
        /\ table.map[forks[t].vec[key]] = key

---------------------------------------------------------------------------
(* unwrap while forks are alive.  Thread 1 holds the GlobalLayoutInterner  *)
(* and a fork of it, the other threads hold a fork each; a fork is dropped *)
(* when its thread has ended.  Thread 1 calls unwrap between its calls.    *)

MaxAttempts == 2

\* a variant that takes the table out whatever else refers to it
try_unwrap_shared(strong_count, interner) == [ok |-> TRUE, interner |-> unwrap(interner)]

\* GlobalLayoutInterner::unwrap: Arc::try_unwrap gives the inner value when
\* this is the only reference, else the Arc comes back in Err
try_unwrap(strong_count, interner) ==
    IF strong_count = 1
    THEN [ok |-> TRUE, interner |-> unwrap(interner)]
    ELSE [ok |-> FALSE, interner |-> interner]

\* the references to the shared table: the GlobalLayoutInterner itself and
\* the parent of every fork (fork clones the Arc)
StrongCount == 1 + Cardinality(DOMAIN forks)

UnwrapProgs == <<ProgInserts(<<InsertValues[2]>>), ProgInserts(<<InsertValues[3]>>)>>

UnwrapSessions ==
    UNION {{[t \in 1..n |-> IF f[t] = 0 THEN <<>> ELSE UnwrapProgs[f[t]]] :
               f \in [1..n -> {0} \cup DOMAIN UnwrapProgs]} :
           n \in 1..MaxThreads}

InitUnwrap ==
    /\ InitSelf(NewBackend(<<>>))
    /\ procs = <<>>
    /\ call_stack = <<>>
    /\ vm = IdleVm
    /\ NoDev
    /\ mode = "global"
    /\ table = into_global(with_capacity)
    /\ locks = [map |-> 0, normalized_lambda_set_map |-> 0, vec |-> 0]
    /\ \E progs \in UnwrapSessions :
          /\ threads = [t \in DOMAIN progs |-> NewThread(progs[t])]
          /\ forks = [t \in DOMAIN progs |-> fork]
    /\ phases = [i \in 1..MaxAttempts |-> Phase("single", <<>>)]

\* the thread has ended: its fork is dropped, and with it one reference
DropFork(t) ==
    /\ mode = "global"
    /\ t \in DOMAIN forks
    /\ threads[t].prog = <<>>
    /\ threads[t].pc = "ready"
    /\ forks' = [u \in DOMAIN forks \ {t} |-> forks[u]]
    /\ UNCHANGED <<mode, table, locks, threads, phases>>
    /\ BackendIdle

\* GlobalLayoutInterner::unwrap, called by thread 1 between two of its
\* calls: Ok with the single-threaded interner, or Err with the interner
TryUnwrap ==
    /\ mode = "global"
    /\ table.panic = "none"
    /\ phases # <<>>
    /\ threads[1].pc = "ready"
    /\ LET r == try_unwrap(StrongCount, table)
           returned == [op |-> "unwrap", kind |-> mode, arg |-> StrongCount,
                        ret |-> IF r.ok THEN "Ok" ELSE "Err", len |-> 0, grew |-> 0]
       IN  /\ mode' = IF r.ok THEN "single" ELSE "global"
           /\ table' = r.interner
           /\ threads' = [threads EXCEPT ![1].results = Append(@, returned)]
    /\ phases' = Tail(phases)
    /\ UNCHANGED <<locks, forks>>
    /\ BackendIdle

NextUnwrap ==
    \/ \E t \in DOMAIN threads : TlInsert(t)
    \/ \E t \in DOMAIN threads : TlGet(t)
    \/ \E t \in DOMAIN threads : DropFork(t)
    \/ TryUnwrap

SpecUnwrap == InitUnwrap /\ [][NextUnwrap]_vars

\* the calls of unwrap that have returned
Unwraps == {r \in {ResultsAt(1)[i] : i \in DOMAIN ResultsAt(1)} : r.op = "unwrap"}

\* unwrap has just returned Err
ReturnedErr ==
    /\ Len(threads'[1].results) = Len(threads[1].results) + 1
    /\ threads'[1].results[Len(threads'[1].results)].op = "unwrap"
    /\ threads'[1].results[Len(threads'[1].results)].ret = "Err"

\* unwrap returned Err exactly when a fork was alive
ErrWhenShared == \A r \in Unwraps : (r.ret = "Err") = (r.arg > 1)

\* the interner is single-threaded only when no fork is left
SingleWhenSole == mode = "single" => DOMAIN forks = {}

\* Err gives the interner back as it was, forks and all; Ok moves the table
\* into the single-threaded interner as it was
UnwrapKeepsTable ==
    /\ ReturnedErr => mode' = "global" /\ table' = table /\ forks' = forks
    /\ (mode = "global" /\ mode' = "single") =>
          /\ DOMAIN forks = {}
          /\ table'.vec = table.vec
          /\ table'.map = table.map
          /\ table'.normalized_lambda_set_map = table.normalized_lambda_set_map

\* C22: GlobalLayoutInterner::unwrap returns Err with the same interner, its
\* contents unchanged, whenever a fork of it is still alive, and returns Ok
\* with a single-threaded interner that holds the same table only when no
\* other reference is left.
C22_UnwrapNeedsSoleReference ==
    /\ [](ErrWhenShared /\ SingleWhenSole)
    /\ [][UnwrapKeepsTable]_vars

\* unwrap was refused while two forks held what they had interned, and
\* succeeded after both were dropped
C22_Witness ==
    /\ mode = "single"
    /\ Len(table.vec) > Len(ReservedLayouts) + 1
    /\ \E r \in Unwraps : r.ret = "Err" /\ r.arg > 2
    /\ \E r \in Unwraps : r.ret = "Ok"

---------------------------------------------------------------------------
(* Jumps whose arguments are parameters of the join point: a loop with the *)
(* parameters n, a and b, entered from the remainder with k and the two    *)
(* arguments of the procedure, whose body returns a or b when n is 0 and   *)
(* otherwise jumps back with n less one and two of a, b and x.             *)

Rotate(k, arguments, ret) ==
    Proc("rotate", <<[layout |-> LayoutI32, symbol |-> "x"],
                     [layout |-> LayoutI32, symbol |-> "y"]>>,
         Join("loop", <<[layout |-> LayoutI32, symbol |-> "n"],
                        [layout |-> LayoutI32, symbol |-> "a"],
                        [layout |-> LayoutI32, symbol |-> "b"]>>,
              Switch("n", LayoutI32, <<[value |-> 0, body |-> Ret(ret)]>>,
                     Let("one", LiteralInt(1), LayoutI32,
                         Let("next", CallLowLevel("NumSub", <<"n", "one">>), LayoutI32,
                             Jump("loop", <<"next">> \o arguments)))),
              Let("start", LiteralInt(k), LayoutI32,
                  Jump("loop", <<"start", "x", "y">>))),
         LayoutI32)

InitJump ==
    \E k \in 0..MaxArg, arguments \in [1..2 -> {"a", "b", "x"}], ret \in {"a", "b"} :
        InitWith(<<Rotate(k, arguments, ret)>>)

SpecJump == InitJump /\ [][NextLoop]_vars

\* the instructions of the Jump statement that starts at s, up to its br
RECURSIVE JumpEnd(_, _)
JumpEnd(code, i) == IF code[i].op = "br" THEN i ELSE JumpEnd(code, i + 1)

\* the first instructions of the Jump statements of the code
JumpSites(code) ==
    {s \in 1..Len(code) :
        /\ code[s].by.stmt = "Jump"
        /\ s > 1 => code[s - 1].by.stmt # "Jump"}

\* the local-to-local assignments of the Jump statement at s:
\* <<the local of the argument, the local of the parameter>>
JumpAssignments(code, s) ==
    {<<code[i].a, code[i + 1].a>> :
        i \in {j \in s..(JumpEnd(code, s) - 2) :
                  code[j].op = "get_local" /\ code[j + 1].op = "set_local"}}

\* the machine when it comes to the br of the Jump statement it is in
RECURSIVE AtBranch(_)
AtBranch(m) ==
    IF VmCode[m.pc].op = "br" THEN m
    ELSE AtBranch(Exec(m, VmCode, module.import, linker_symbols))

\* C23: after the code of a Jump has run, every parameter of the join point
\* holds the value its argument had at the jump, also when the argument is
\* another parameter of the same join point; the assignments all come
\* before the br.
C23_JumpAssignsArguments ==
    /\ \A code \in FinishedCode :
          \A i \in 1..Len(code) :
              (code[i].by.stmt = "Jump" /\ code[i].op = "br" /\ i < Len(code)) =>
                  code[i + 1].by.stmt # "Jump"
    /\ (vm.status = "running" /\ vm.pc \in JumpSites(VmCode)) =>
          \A pair \in JumpAssignments(VmCode, vm.pc) :
              At(AtBranch(vm).locals, pair[2]) = At(vm.locals, pair[1])

\* the machine is at a jump that passes parameters of the join point to it
C23_Witness ==
    /\ vm.status = "running"
    /\ vm.pc \in JumpSites(VmCode)
    /\ VmCode[vm.pc].by.guards # <<>>
    /\ Cardinality(JumpAssignments(VmCode, vm.pc)) >= 2
    /\ history.proc.body.body.default_branch.following.following.arguments = <<"next", "b", "a">>

---------------------------------------------------------------------------
(* The tests of a Switch: a procedure that switches on its argument, of a  *)
(* Bool, integer or float layout, over up to MaxBranches branch values,    *)
(* and returns the number of the branch taken.                             *)

CondLayouts ==
    {LayoutBool, LayoutInt(1), LayoutI32, LayoutI64, LayoutFloat(4), LayoutFloat(8)}

Pick(cond_layout, values) ==
    Proc("pick", <<[layout |-> cond_layout, symbol |-> "x"]>>,
         Switch("x", cond_layout,
                [i \in 1..Len(values) |->
                    [value |-> values[i],
                     body |-> Let("m" \o ToString(i), LiteralInt(i), LayoutI32,
                                  Ret("m" \o ToString(i)))]],
                Let("m0", LiteralInt(0), LayoutI32, Ret("m0"))),
         LayoutI32)

InitSwitch ==
    \E cond_layout \in CondLayouts, n \in 1..MaxBranches :
        \E values \in [1..n -> 0..MaxArg] : InitWith(<<Pick(cond_layout, values)>>)

NextSwitch ==
    \/ BuildProc
    \/ BuildLet
    \/ BuildRet
    \/ BuildSwitch
    \/ SwitchBranch
    \/ FinalizeProc
    \/ Reset
    \/ VmStart
    \/ VmStep

SpecSwitch == InitSwitch /\ [][NextSwitch]_vars

\* the constant and the comparison of a value type
CompareOps(layout) ==
    CASE layout.k = "Int" /\ layout.bytes <= 4 -> <<"i32.const", "i32.eq">>
      [] layout.k = "Int" /\ layout.bytes > 4 -> <<"i64.const", "i64.eq">>
      [] layout.k = "Float" /\ layout.bytes <= 4 -> <<"f32.const", "f32.eq">>
      [] layout.k = "Float" /\ layout.bytes > 4 -> <<"f64.const", "f64.eq">>

ConstantOps == {"i32.const", "i64.const", "f32.const", "f64.const"}

\* the test before the br_if at i is the one for the branch it leaves
TestEmitted(code, i, stmt) ==
    LET value == stmt.branches[code[i].a + 1].value
    IN  IF stmt.cond_layout.k = "Bool"
        THEN /\ \A j \in 1..Len(code) :
                    code[j].by.stmt = "Switch" => code[j].op \notin ConstantOps
             /\ IF value = 0
                THEN code[i - 1].op = "i32.eqz" /\ code[i - 2].op = "get_local"
                ELSE code[i - 1].op = "get_local"
        ELSE /\ code[i - 1].op = CompareOps(stmt.cond_layout)[2]
             /\ code[i - 2].op = CompareOps(stmt.cond_layout)[1]
             /\ code[i - 2].a = value
             /\ code[i - 3].op = "get_local"

\* the machine at a br_if takes the branch
Taken(m) == Exec(m, VmCode, module.import, linker_symbols).pc = BrTarget(VmCode, m.pc, VmCode[m.pc].a)

\* C24: a Switch on a Bool compares with no constant: the test of a branch
\* with the value 0 is a zero test of the condition, taken exactly when the
\* condition is 0, and the test of a branch with another value is the
\* condition itself, taken exactly when the condition is not 0; for any
\* other condition the constant and the comparison have the value type of
\* the condition (i32, i64, f32 or f64).
C24_SwitchTests ==
    /\ \A code \in FinishedCode :
          \A i \in 1..Len(code) :
              code[i].op = "br_if" => TestEmitted(code, i, history.proc.body)
    /\ (/\ vm.status = "running"
        /\ VmCode[vm.pc].op = "br_if"
        /\ history.proc.body.cond_layout.k = "Bool") =>
          LET value == history.proc.body.branches[VmCode[vm.pc].a + 1].value
          IN  Taken(vm) = IF value = 0 THEN vm.arg = 0 ELSE vm.arg # 0

\* a run took the branch with the value 1 of a Switch on a Bool whose value
\* was 2, after the zero test of the branch before it had failed
C24_Witness ==
    /\ vm.status = "done"
    /\ history.proc.body.cond_layout.k = "Bool"
    /\ Len(history.proc.body.branches) = 2
    /\ history.proc.body.branches[1].value = 0
    /\ history.proc.body.branches[2].value = 1
    /\ vm.arg = 2
    /\ vm.stack = <<2>>
    /\ \E e \in vm.executed : e.op = "i32.eqz"

---------------------------------------------------------------------------
(* GetTagId on each representation of a union: a procedure that takes a    *)
(* union value and returns its tag id.                                     *)

\* two tags, kept in the stack frame with the tag id after the fields
UnionNonRecursive == UnionLayout("NonRecursive", <<<<LayoutI32>>, <<LayoutI64>>>>, 0)
\* one tag, no null tag
UnionUnwrapped == UnionLayout("NonNullableUnwrapped", <<<<LayoutI32, LayoutI32>>>>, 0)
\* a null tag, with the id 2, and four other tags: the tag id is stored
UnionNullableFour ==
    UnionLayout("NullableWrapped",
                <<<<LayoutI32>>, <<LayoutI64>>, <<LayoutI32>>, <<LayoutI32>>>>, 2)

TagIdUnions ==
    {UnionNonRecursive, UnionPair, UnionSingle, UnionFour, UnionUnwrapped,
     UnionNullableWrapped, UnionNullableFour, UnionNullable(0), UnionNullable(1)}

\* GetTagId of an argument, and of a tag that the procedure has built
TagIdProcs == {TagIdProc(u) : u \in TagIdUnions} \cup {TagProc(c) : c \in TagCases}

InitTagId == \E p \in TagIdProcs : InitWith(<<p>>)

SpecTagId == InitTagId /\ [][NextExpr]_vars

\* the height of the operand stack after the instructions c[i..], entered
\* with the height h inside the open if blocks `frames`; -1 if an instruction
\* finds too few operands, or an else or end does not find its block with
\* exactly the declared result on the stack
RECURSIVE StackAfter(_, _, _, _)
StackAfter(c, i, h, frames) ==
    IF i > Len(c) THEN (IF frames = <<>> THEN h ELSE 0 - 1)
    ELSE LET op == c[i].op
             next(h2, f2) == StackAfter(c, i + 1, h2, f2)
             closes == IF frames = <<>> THEN FALSE
                       ELSE h = Head(frames).entry + Head(frames).arity
         IN  CASE op \in {"get_local", "i32.const", "i64.const"} -> next(h + 1, frames)
               [] op \in {"i32.eqz", "tee_local"} \cup MemoryLoads ->
                     IF h < 1 THEN 0 - 1 ELSE next(h, frames)
               [] op \in {"i32.and", "i32.add"} ->
                     IF h < 2 THEN 0 - 1 ELSE next(h - 1, frames)
               [] op = "if" ->
                     IF h < 1 THEN 0 - 1
                     ELSE next(h - 1,
                               <<[entry |-> h - 1,
                                  arity |-> IF c[i].a = BlockTypeNoResult THEN 0 ELSE 1,
                                  in_else |-> FALSE]>> \o frames)
               [] op = "else" ->
                     IF closes /\ ~Head(frames).in_else
                     THEN next(Head(frames).entry,
                               <<[Head(frames) EXCEPT !.in_else = TRUE]>> \o Tail(frames))
                     ELSE 0 - 1
               [] op = "end" -> IF closes THEN next(h, Tail(frames)) ELSE 0 - 1
               [] OTHER -> 0 - 1

\* the values the code c finds on the operand stack: the union value, when
\* it was pushed last and its load is left out
OnStack(c) == IF c[1].op \in {"get_local", "i32.const"} THEN 0 ELSE 1

\* the tag id that GetTagId has to give for the union value at `ptr`
TagIdAt(u, ptr, mem) ==
    LET sa == data_size_and_alignment(u)
        read == IF stores_tag_id_as_data(u, PTR_SIZE)
                THEN MemByte(mem, ptr + sa[1] - sa[2])
                ELSE And32(ptr, 3)
    IN  CASE u.variant = "NonNullableUnwrapped" -> 0
          [] u.variant = "NullableUnwrapped" ->
                IF ptr = 0 THEN u.nullable_id ELSE 1 - u.nullable_id
          [] u.variant = "NullableWrapped" -> IF ptr = 0 THEN u.nullable_id ELSE read
          [] OTHER -> read

\* the code of GetTagId is the one of the representation
TagIdCode(c, u) ==
    LET sa == data_size_and_alignment(u)
        loads == {i \in 1..Len(c) : c[i].op \in MemoryLoads}
        masks == {i \in 2..Len(c) : c[i].op = "i32.and" /\ IsConst(c[i - 1], 3)}
        tests == {i \in 1..Len(c) : c[i].op = "i32.eqz"}
        nullable == u.variant \in {"NullableWrapped", "NullableUnwrapped"}
    IN  /\ Cardinality({i \in 1..Len(c) : c[i].op = "if"})
              = Cardinality({i \in 1..Len(c) : c[i].op = "end"})
        /\ u.variant = "NonNullableUnwrapped" => Len(c) = 1 /\ IsConst(c[1], 0)
        /\ IF nullable
           THEN \E e \in 1..2 :
                   /\ tests = {e}
                   /\ \A i \in 1..(e - 1) : c[i].op \in {"get_local", "tee_local"}
                   /\ c[e + 1].op = "if"
                   /\ IsConst(c[e + 2], u.nullable_id)
                   /\ c[e + 3].op = "else"
                   /\ \A i \in loads \cup masks : i > e + 3
           ELSE tests = {}
        /\ IF stores_tag_id_as_data(u, PTR_SIZE)
           THEN /\ masks = {}
                /\ \E i \in 1..Len(c) : loads = {i} /\ c[i].b = sa[1] - sa[2]
           ELSE loads = {}
        /\ IF stores_tag_id_in_pointer(u, PTR_SIZE)
           THEN Cardinality(masks) = 1
           ELSE masks = {}

\* C25: for each of the five representations of a union, the code of
\* GetTagId leaves exactly one value on the operand stack and closes every
\* if it opens once: constant 0 with no load for a union of one tag without
\* a null tag; for the nullable ones a zero test of the value first, which
\* gives the nullable id; else the tag id is loaded from the offset
\* data_size - data_alignment, or is the pointer masked with 3.
C25_GetTagId ==
    (Finished /\ history.proc.name \in {"tag", "tag_id"}) =>
        LET u == (CHOOSE l \in Lets(history.proc.body) : l.sym = "g").expr.union_layout
            c == LetCode(VmCode, "g")
        IN  /\ StackAfter(c, 1, OnStack(c), <<>>) = 1
            /\ TagIdCode(c, u)
            /\ vm.status = "done" =>
                  vm.stack = <<IF history.proc.name = "tag"
                               THEN history.proc.body.expr.tag_id
                               ELSE TagIdAt(u, At(vm.locals, 0), vm.mem)>>

\* GetTagId has given the nullable id of a null tag that was built
C25_NullWitness ==
    /\ Finished
    /\ vm.status = "done"
    /\ history.proc.name = "tag"
    /\ history.proc.body.expr.tag_layout = UnionNullableWrapped
    /\ vm.stack = <<UnionNullableWrapped.nullable_id>>

\* GetTagId has given the tag id stored behind a pointer that was not null,
\* for a union with a null tag and four others
C25_Witness ==
    /\ Finished
    /\ vm.status = "done"
    /\ history.proc.name = "tag_id"
    /\ history.proc.body.expr.union_layout = UnionNullableFour
    /\ At(vm.locals, 0) # 0
    /\ \E e \in vm.executed : e.op = "i32.load8_u"
    /\ \E e \in vm.executed : e.op = "if"

---------------------------------------------------------------------------
(* UnionAtIndex: a procedure that builds a tag of a union from its         *)
(* arguments, reads one field of it back and returns the field.            *)

\* a null tag, with the id 0, and the tags 1 and 2 with different fields
UnionNullableFirst ==
    UnionLayout("NullableWrapped",
                <<<<LayoutI64, LayoutI32>>, <<LayoutI32, LayoutI32>>>>, 0)

\* the fields of the tag with the id tag_id: the ids of a NullableWrapped
\* union count the null tag, which has no entry in other_tags
TagFields(u, tag_id) ==
    CASE u.variant \in {"NonNullableUnwrapped", "NullableUnwrapped"} -> u.tags[1]
      [] u.variant = "NullableWrapped" ->
            At(u.tags, IF tag_id < u.nullable_id THEN tag_id ELSE tag_id - 1)
      [] OTHER -> At(u.tags, tag_id)

\* the ids of the tags of a union that are not null
TagIds(u) ==
    CASE u.variant = "NonNullableUnwrapped" -> {0}
      [] u.variant = "NullableUnwrapped" -> {1 - u.nullable_id}
      [] u.variant = "NullableWrapped" -> (0..Len(u.tags)) \ {u.nullable_id}
      [] OTHER -> 0..(Len(u.tags) - 1)

UnionAtUnions ==
    {UnionNonRecursive, UnionPair, UnionFour, UnionUnwrapped, UnionNullable(0),
     UnionNullable(1), UnionNullableWrapped, UnionNullableFirst}

\* the argument of the layout of a field: x is an I32, y an I64
ArgOf(layout) == IF layout = LayoutI32 THEN "x" ELSE "y"

\* [s = Struct {x, x};] t = Tag ...; f = UnionAtIndex t; return f
UnionAtProc(u, tag_id, index, padded) ==
    LET fields == TagFields(u, tag_id)
        read == Let("t", Tag(u, tag_id, [i \in 1..Len(fields) |-> ArgOf(fields[i])]),
                    LayoutUnion(u),
                    Let("f", UnionAtIndex("t", tag_id, u, index), fields[index + 1],
                        Ret("f")))
    IN  Proc("union_at", ExprArgs,
             IF padded THEN Let("s", Struct(<<"x", "x">>), StructXX, read) ELSE read,
             fields[index + 1])

UnionAtProcs ==
    UNION {UNION {{UnionAtProc(u, tag_id, index, padded) :
                      index \in 0..(Len(TagFields(u, tag_id)) - 1),
                      padded \in {FALSE} \cup {u.variant = "NonRecursive"}}
                  : tag_id \in TagIds(u)}
           : u \in UnionAtUnions}

InitUnionAt == \E p \in UnionAtProcs : InitWith(<<p>>)

SpecUnionAt == InitUnionAt /\ [][NextExpr]_vars

\* the UnionAtIndex expression of the procedure, and the offset of the union
\* it reads in the local that holds it
UnionAtExpr == (CHOOSE l \in Lets(history.proc.body) : l.sym = "f").expr

BaseOffset ==
    IF history.proc.body.sym = "s"
    THEN round_up_to_alignment(stack_size(StructXX),
                               alignment_bytes(LayoutUnion(UnionAtExpr.union_layout)))
    ELSE 0

\* the value of an argument in the machine
ArgIn(m, sym) == IF sym = "x" THEN m.arg ELSE I64(m.arg + 16, 0)

\* the field is read at the base offset plus the sizes of the fields before it
ReadsField(c, e) ==
    \E i \in 1..Len(c) :
        /\ {j \in 1..Len(c) : c[j].op \in MemoryLoads} = {i}
        /\ c[i].b = BaseOffset
                    + SumSeq(FieldSizes(Take(TagFields(e.union_layout, e.tag_id),
                                             e.index)))

\* the pointer is untagged into a local of its own, which is the base
Untags(c) ==
    /\ Len(c) = 6
    /\ Ops(c) = <<"get_local", "i32.const", "i32.and", "set_local", "get_local",
                  c[6].op>>
    /\ c[6].op \in MemoryLoads
    /\ c[2].a = 0 - 4
    /\ c[4].a = c[5].a
    /\ c[4].a # c[1].a

\* C26: UnionAtIndex reads field `index` of the tag `tag_id` at the base
\* offset of the union plus the stack sizes of the fields before `index` in
\* the field list of that tag; when the tag id is in the pointer, the pointer
\* with its low 2 bits cleared (and -4) goes into a new local, which is the
\* base, and the local of the union keeps the tagged pointer.
C26_UnionAtIndex ==
    history.proc.name = "union_at" =>
        /\ error = "none"
        /\ Finished =>
              LET e == UnionAtExpr
                  c == LetCode(VmCode, "f")
                  in_pointer == stores_tag_id_in_pointer(e.union_layout, PTR_SIZE)
              IN  /\ ReadsField(c, e)
                  /\ in_pointer => Untags(c)
                  /\ vm.status = "done" =>
                        /\ vm.stack
                             = <<ArgIn(vm, ArgOf(TagFields(e.union_layout, e.tag_id)
                                                     [e.index + 1]))>>
                        /\ in_pointer =>
                              /\ And32(At(vm.locals, c[1].a), 3) = e.tag_id
                              /\ At(vm.locals, c[4].a)
                                    = AndI32(At(vm.locals, c[1].a), 0 - 4)

\* the same for the tags whose id is below the nullable id, or whose union
\* has no null tag
UnionAtBelowNullable ==
    (/\ history.proc.name = "union_at"
     /\ UnionAtExpr.union_layout.variant = "NullableWrapped"
     /\ UnionAtExpr.tag_id > UnionAtExpr.union_layout.nullable_id)
    \/ C26_UnionAtIndex

\* the second field of the second tag of a union with its tag id in the
\* pointer was read through the untagged pointer
UnionAtWitness ==
    /\ Finished
    /\ vm.status = "done"
    /\ history.proc.name = "union_at"
    /\ UnionAtExpr.union_layout = UnionPair
    /\ UnionAtExpr.index = 1
    /\ And32(At(vm.locals, LetCode(VmCode, "f")[1].a), 3) = 0
    /\ vm.arg = 2

---------------------------------------------------------------------------
(* Struct expressions: of no size, of one field whose layout is that of    *)
(* the field, and of several fields.                                       *)

StructArgs == <<[layout |-> LayoutI32, symbol |-> "x"], [layout |-> LayoutStr, symbol |-> "s"]>>

StructCases ==
    {Proc("unit", StructArgs,
          Let("e", Struct(<<>>), LAYOUT_UNIT,
              Let("u", Struct(<<"e">>), LayoutStruct(<<LAYOUT_UNIT>>),
                  Let("r", LiteralInt(7), LayoutI32, Ret("r")))),
          LayoutI32),
     Proc("wrap", StructArgs, Let("w", Struct(<<"s">>), LayoutStr, Ret("w")), LayoutStr),
     Proc("wrap", StructArgs,
          Let("w", Struct(<<"s">>), LayoutStr, Let("r", LiteralInt(7), LayoutI32, Ret("r"))),
          LayoutI32),
     Proc("pair", StructArgs,
          Let("p", Struct(<<"x", "x">>), StructXX,
              Let("r", LiteralInt(7), LayoutI32, Ret("r"))),
          LayoutI32)}

InitStruct ==
    \E p \in StructCases \cup {q \in ExprProcs : q.name = "struct"} : InitWith(<<p>>)

SpecStruct == InitStruct /\ [][NextExpr]_vars

StoreOps32 == {"i32.store", "i64.store", "i32.store8", "i32.store16"}

\* the Struct expressions of the procedure compiled last
StructLets == {l \in Lets(history.proc.body) : l.expr.k = "Struct"}

\* where the copy of the argument s is expected once the run is over: behind
\* the return pointer, or in the stack frame
CloneAddrs == IF ReturnsByPointer(history.proc) THEN {RetAddr} ELSE (StackTop - 16)..(StackTop - 8)

\* create_struct for a symbol of the backend that is not in stack memory
OutsideMemory ==
    {sym \in DOMAIN storage.symbol_storage_map :
        storage.symbol_storage_map[sym].kind # "StackMemory"}

\* C27: create_struct emits no instruction for a struct whose slot in stack
\* memory has the size 0; for a Struct expression whose layout is not a
\* Struct layout it emits only the clone of field 0 into the storage of the
\* symbol; for a Struct layout that is not stored in stack memory it aborts
\* with an internal error.
C27_CreateStruct ==
    /\ Finished =>
          \A l \in StructLets :
              LET c == LetCode(VmCode, l.sym)
              IN  /\ (l.layout.k = "Struct" /\ stack_size(l.layout) = 0) => c = <<>>
                  /\ l.layout.k # "Struct" =>
                        /\ c # <<>>
                        /\ Cardinality({i \in 1..Len(c) : c[i].op \in StoreOps32})
                              = Cardinality({i \in 1..Len(c) : c[i].op \in MemoryLoads})
                        /\ \A i \in 1..Len(c) :
                              c[i].op \in StoreOps32 \cup MemoryLoads \cup {"get_local"}
                        /\ vm.status = "done" =>
                              \E a \in CloneAddrs :
                                  LoadBytes(vm.mem, a, stack_size(l.layout))
                                     = LoadBytes(vm.mem, ArgAddr(2), stack_size(l.layout))
    /\ (Compiling /\ TopStmt("Ret")) =>
          \A sym \in OutsideMemory :
              LET out == create_struct(Self, sym, StructXX, <<sym, sym>>)
              IN  /\ out.error # "none"
                  /\ out.code_builder = code_builder

\* the struct of one Str field was cloned into the stack frame, after which
\* create_struct was refused for the locals of the procedure
C27_Witness ==
    /\ Finished
    /\ vm.status = "done"
    /\ history.proc.name = "wrap"
    /\ ~ReturnsByPointer(history.proc)
    /\ LetCode(VmCode, "w") # <<>>
    /\ vm.stack = <<7>>

\* the struct of no size was lowered to nothing, with its field
C27_UnitWitness ==
    /\ Compiling /\ TopStmt("Ret")
    /\ history.proc.name = "unit"
    /\ "x" \in OutsideMemory
    /\ storage.symbol_storage_map["u"].kind = "StackMemory"
    /\ storage.symbol_storage_map["u"].size = 0

---------------------------------------------------------------------------
(* The types of the blocks: the validation of the operand stack heights of *)
(* a function body, as the binary format prescribes it.  Each open block   *)
(* has the height at its start, the number of values it is declared to     *)
(* leave, the number of values a branch to it carries (none for a loop),   *)
(* and whether the code at hand follows an unconditional branch, after     *)
(* which any number of values may be taken from the stack.                 *)

BlockArity(block_type) == IF block_type = BlockTypeNoResult THEN 0 ELSE 1

Frame(height, arity, label, unreachable) ==
    [height |-> height, arity |-> arity, label |-> label, unreachable |-> unreachable]

\* <<the values taken, the values left>> by an instruction that is not a
\* block, a branch or an end
StackEffect(ins) ==
    CASE ins.op \in {"get_local", "i32.const", "i64.const", "f32.const", "f64.const",
                     "i32.const_mem_addr"} -> <<0, 1>>
      [] ins.op = "set_local" -> <<1, 0>>
      [] ins.op \in {"tee_local", "i32.eqz"} \cup MemoryLoads -> <<1, 1>>
      [] ins.op \in StoreOps32 -> <<2, 0>>
      [] ins.op \in {"i32.eq", "i64.eq", "f32.eq", "f64.eq", "i32.add", "i32.sub",
                     "i32.and", "i32.or"} -> <<2, 1>>
      [] ins.op = "call" -> <<ins.c \div 2, ins.c % 2>>
      [] OTHER -> <<0, 0>>

\* the height after n values are taken in the frame f, or -1 if they are not there
TakeValues(h, n, f) ==
    IF h - n >= f.height THEN h - n
    ELSE IF f.unreachable THEN f.height ELSE 0 - 1

\* the block in frame f may end at the height h
MayEnd(h, f) ==
    IF f.unreachable THEN h <= f.height + f.arity ELSE h = f.height + f.arity

RECURSIVE Validates(_, _, _, _)
Validates(code, i, h, frames) ==
    IF i > Len(code) THEN frames = <<>>
    ELSE IF frames = <<>> THEN FALSE
    ELSE LET ins == code[i]
             f == Head(frames)
             next(h2, frames2) == Validates(code, i + 1, h2, frames2)
             branch(h2, n) ==
                 /\ n < Len(frames)
                 /\ TakeValues(h2, frames[n + 1].label, f) >= 0
         IN  CASE ins.op \in {"block", "loop"} ->
                    next(h, <<Frame(h, BlockArity(ins.a),
                                    IF ins.op = "loop" THEN 0 ELSE BlockArity(ins.a),
                                    FALSE)>> \o frames)
               [] ins.op = "if" ->
                    LET h1 == TakeValues(h, 1, f)
                    IN  /\ h1 >= 0
                        /\ next(h1, <<Frame(h1, BlockArity(ins.a), BlockArity(ins.a),
                                            FALSE)>> \o frames)
               [] ins.op = "else" ->
                    /\ MayEnd(h, f)
                    /\ next(f.height, <<[f EXCEPT !.unreachable = FALSE]>> \o Tail(frames))
               [] ins.op = "end" ->
                    /\ MayEnd(h, f)
                    /\ next(f.height + f.arity, Tail(frames))
               [] ins.op = "br" ->
                    /\ branch(h, ins.a)
                    /\ next(f.height, <<[f EXCEPT !.unreachable = TRUE]>> \o Tail(frames))
               [] ins.op = "br_if" ->
                    LET h1 == TakeValues(h, 1, f)
                    IN  h1 >= 0 /\ branch(h1, ins.a) /\ next(h1, frames)
               [] OTHER ->
                    LET h1 == TakeValues(h, StackEffect(ins)[1], f)
                    IN  h1 >= 0 /\ next(h1 + StackEffect(ins)[2], frames)

\* the function body is valid for a function that returns `results` values
ValidBody(code, results) ==
    Validates(code, 1, 0, <<Frame(0, results, results, FALSE)>>)

\* the values the procedure compiled last returns on the operand stack
Results == IF return_method(WasmLayoutNew(history.proc.ret_layout)).k = "Primitive" THEN 1 ELSE 0

\* C28: every block and loop is declared with what the code leaves on the
\* operand stack at its end: the blocks of the Switch branches and the outer
\* block of a Join are NoResult and end at the height they start at, and the
\* value that a Join loop of a procedure with a primitive return type is
\* declared to leave is not left inside a NoResult block, for any nesting of
\* Join and Switch.
C28_BlockTypes ==
    (Finished /\ vm.status = "idle") =>
        /\ \A i \in 1..Len(VmCode) :
              (VmCode[i].op = "block" /\ VmCode[i].by.stmt \in {"Switch", "Join"}) =>
                  VmCode[i].a = BlockTypeNoResult
        /\ ValidBody(VmCode, Results)

\* a loop declared with a value lies inside a block declared NoResult
ValueLoopInsideNoResult ==
    \E i \in 1..Len(VmCode) :
        /\ VmCode[i].op = "loop"
        /\ VmCode[i].a # BlockTypeNoResult
        /\ \E j \in 1..Len(Enclosing(VmCode, i)) :
              /\ VmCode[Enclosing(VmCode, i)[j]].op = "block"
              /\ VmCode[Enclosing(VmCode, i)[j]].a = BlockTypeNoResult

\* the body of a procedure is valid exactly when no such loop is in it
ValidUnlessValueLoopNested ==
    (Finished /\ vm.status = "idle") =>
        (ValidBody(VmCode, Results) = ~ValueLoopInsideNoResult)


---------------------------------------------------------------------------
(* The layout of the constant segment, over the sessions of string         *)
(* literals.                                                               *)

\* the uses of constants in a function body, in the order they were emitted
PoolUsesIn(code) ==
    SelectSeq(code, LAMBDA ins : ins.op = "i32.const_mem_addr")

RECURSIVE Flatten(_)
Flatten(seqs) == IF seqs = <<>> THEN <<>> ELSE Head(seqs) \o Flatten(Tail(seqs))

\* all the uses in the module, in the order they were emitted
PoolUses == Flatten([p \in 1..Len(EmittedCode) |-> PoolUsesIn(EmittedCode[p])])

\* the strings of a sequence in the order of their first occurrence
RECURSIVE FirstOccurrences(_, _)
FirstOccurrences(strs, seen) ==
    IF strs = <<>> THEN <<>>
    ELSE IF Head(strs) \in seen THEN FirstOccurrences(Tail(strs), seen)
    ELSE <<Head(strs)>> \o FirstOccurrences(Tail(strs), seen \cup {Head(strs)})

PooledStrings == FirstOccurrences([i \in 1..Len(PoolUses) |-> PoolUses[i].by.note], {})

\* the segment that holds the strings in turn, each behind its refcount
RECURSIVE SegmentOf(_)
SegmentOf(strs) ==
    IF strs = <<>> THEN <<>>
    ELSE I32ToLeBytes(REFCOUNT_MAX) \o Head(strs) \o SegmentOf(Tail(strs))

\* the index in the segment of the first byte of the k-th string
ElementsOffset(strs, k) == Len(SegmentOf(SubSeq(strs, 1, k - 1))) + 4

DataSymbols == SelectSeq(linker_symbols, LAMBDA info : info.kind = "Data")

\* the string literals of 8 bytes and more that a procedure binds, in order
RECURSIVE LongLiterals(_)
LongLiterals(stmt) ==
    IF stmt.k # "Let" THEN <<>>
    ELSE (IF stmt.expr.k = "Literal" /\ stmt.expr.lit.k = "Str" /\ Len(stmt.expr.lit.v) >= 8
          THEN <<stmt.expr.lit.v>> ELSE <<>>) \o LongLiterals(stmt.following)

SegmentLayout ==
    LET strs == PooledStrings
    IN  /\ module.const_segment = SegmentOf(strs)
        /\ Len(DataSymbols) = Len(strs)
        /\ \A k \in 1..Len(strs) :
              /\ DataSymbols[k].def = "Defined"
              /\ DataSymbols[k].segment_offset = ElementsOffset(strs, k)
              /\ DataSymbols[k].size = Len(strs[k])
              /\ SubSeq(module.const_segment, DataSymbols[k].segment_offset + 1,
                        DataSymbols[k].segment_offset + DataSymbols[k].size) = strs[k]
        /\ \A i \in 1..Len(PoolUses) :
              \E k \in 1..Len(strs) :
                 /\ strs[k] = PoolUses[i].by.note
                 /\ PoolUses[i].a = CONST_SEGMENT_BASE_ADDR + DataSymbols[k].segment_offset
                 /\ At(linker_symbols, PoolUses[i].b) = DataSymbols[k]
        \* the constants used are the literals of 8 bytes and more
        /\ (call_stack = <<>> /\ module.code_builders # <<>>) =>
              LET uses == PoolUsesIn(Body(module.code_builders[Len(module.code_builders)]))
              IN  [i \in 1..Len(uses) |-> uses[i].by.note] = LongLiterals(history.proc.body)

SegmentAppendOnly == IsPrefix(module.const_segment, module.const_segment')

\* C29: the constant segment is append-only, and after any sequence of
\* literals it is the concatenation, in the order of first occurrence, of
\* the 4-byte refcount sentinel and the bytes of each distinct string of 8
\* bytes or more; each Data linker symbol has the index of its string's
\* first byte as segment_offset and the string's length as size; and the
\* address emitted for a string, at its first and at every later use, is
\* 1024 + segment_offset.
C29_SegmentLayout == []SegmentLayout /\ [][SegmentAppendOnly]_vars

\* a string is used, then another, then the first again, and a literal of
\* fewer than 8 bytes was bound that left the segment alone
C29_ShortWitness ==
    /\ call_stack = <<>>
    /\ Len(PoolUses) = 2
    /\ PoolUses[1].by.note = PoolUses[2].by.note
    /\ Len(LongLiterals(history.proc.body)) < Cardinality(Lets(history.proc.body))
    /\ Len(module.const_segment) = 12

\* three uses of two strings: the second use of the first string follows
\* the first use of the second
C29_Witness ==
    /\ Len(PoolUses) = 3
    /\ PoolUses[1].by.note = PoolUses[3].by.note
    /\ PoolUses[1].by.note # PoolUses[2].by.note
    /\ PoolUses[3].a = CONST_SEGMENT_BASE_ADDR + 4
    /\ Len(module.const_segment) = 16 + Len(PoolUses[2].by.note)

---------------------------------------------------------------------------
(* Calls: sessions of a procedure that calls procedures of the module,     *)
(* wrappers of low-level operations and low-level operations, compiled     *)
(* before, between or after the procedures it calls.  Two of those have    *)
(* one symbol: two specializations of one procedure.                       *)

CalleeF == Proc("f", <<[layout |-> LayoutI32, symbol |-> "v"]>>, Ret("v"), LayoutI32)

CalleeF64 == Proc("f", <<[layout |-> LayoutI64, symbol |-> "w"]>>, Ret("w"), LayoutI64)

CalleeG == Proc("g", <<[layout |-> LayoutStr, symbol |-> "s"]>>, Ret("s"), LayoutStr)

CallerBodies ==
    {\* a procedure of the module
     Let("r", CallByName("f", <<"x">>), LayoutI32, Ret("r")),
     \* one that returns through a pointer, then another
     Let("r", CallByName("g", <<"a">>), LayoutStr,
         Let("n", CallByName("f", <<"x">>), LayoutI32, Ret("n"))),
     \* a wrapper that is one instruction
     Let("r", CallByName("Num.add", <<"x", "x">>), LayoutI32,
         Let("n", CallByName("f", <<"r">>), LayoutI32, Ret("n"))),
     \* wrappers that need a routine, one of them twice
     Let("c", CallByName("Str.concat", <<"a", "b">>), LayoutStr,
         Let("d", CallByName("Str.concat", <<"c", "a">>), LayoutStr,
             Let("n", CallByName("Str.countGraphemes", <<"d">>), LayoutI32, Ret("n")))),
     \* low-level operations
     Let("c", CallLowLevel("StrConcat", <<"a", "b">>), LayoutStr,
         Let("r", CallLowLevel("NumSub", <<"x", "x">>), LayoutI32,
             Let("n", CallByName("f", <<"r">>), LayoutI32, Ret("n")))),
     \* a wrapper, a procedure and a low-level operation on its result
     Let("c", CallByName("Str.concat", <<"a", "b">>), LayoutStr,
         Let("r", CallByName("g", <<"c">>), LayoutStr,
             Let("n", CallLowLevel("StrCountGraphemes", <<"r">>), LayoutI32, Ret("n")))),
     \* a procedure, and the refcounting helper of a string
     Let("n", CallByName("f", <<"x">>), LayoutI32,
         Let("c", LiteralStr(<<97>>), LayoutStr,
             Refcounting([op |-> "dec", sym |-> "c"], Ret("n"))))}

Callers ==
    {Proc("main", <<[layout |-> LayoutStr, symbol |-> "a"],
                    [layout |-> LayoutStr, symbol |-> "b"],
                    [layout |-> LayoutI32, symbol |-> "x"]>>, body, LayoutI32)
        : body \in CallerBodies}

CallSessions ==
    UNION {{<<CalleeF, CalleeG, main>>,
            <<main, CalleeG, CalleeF>>,
            <<CalleeG, CalleeF, CalleeF64, main>>,
            <<CalleeF64, main, CalleeF, CalleeG>>} : main \in Callers}

InitCalls == \E ps \in CallSessions : InitWith(ps)

NextCalls ==
    \/ BuildProc
    \/ BuildLet
    \/ BuildRet
    \/ BuildRefcounting
    \/ FinalizeProc
    \/ Reset

SpecCalls == InitCalls /\ [][NextCalls]_vars

CallsIn(code) == SelectSeq(code, LAMBDA ins : ins.op = "call")

\* the loads of arguments made for the call bound to sym
LoadsFor(sym) == SelectSeq(history.loads, LAMBDA l : l.sym = sym)

\* the position in proc_symbols of the first entry for a symbol, 0 if none
FirstEntry(sym) ==
    IF \E i \in 1..Len(proc_symbols) : proc_symbols[i].sym = sym
    THEN CHOOSE i \in 1..Len(proc_symbols) :
            /\ proc_symbols[i].sym = sym
            /\ \A j \in 1..(i - 1) : proc_symbols[j].sym # sym
    ELSE 0

\* the low-level operation a call expression is lowered as, "None" if it is
\* a call of a procedure of the module
LowLevelOf(expr) ==
    IF expr.call_type = "LowLevel" THEN expr.op
    ELSE IF expr.name \in {"Num.add", "Num.sub", "Str.concat", "Str.countGraphemes"}
    THEN CASE expr.name = "Num.add" -> "NumAdd"
           [] expr.name = "Num.sub" -> "NumSub"
           [] expr.name = "Str.concat" -> "StrConcat"
           [] expr.name = "Str.countGraphemes" -> "StrCountGraphemes"
    ELSE "None"

\* the runtime routine a low-level operation needs, "" if it needs none
RoutineOf(lowlevel) ==
    CASE lowlevel = "StrConcat" -> "roc_builtins.str.concat"
      [] lowlevel = "StrStartsWith" -> "roc_builtins.str.starts_with"
      [] lowlevel = "StrCountGraphemes" -> "roc_builtins.str.count_grapheme_clusters"
      [] OTHER -> ""

\* the values a call passes and returns, as the call instruction records them
CallArity(load, layout) ==
    2 * Len(load.arguments)
    + (IF return_method(WasmLayoutNew(layout)).k = "Primitive" THEN 1 ELSE 0)

\* a call of a procedure of the module, bound by the Let l
ByNameCall(l) ==
    LET calls == CallsIn(LetCode(LastCode, l.sym))
        loads == LoadsFor(l.sym)
        entry == FirstEntry(l.expr.name)
    IN  /\ Len(loads) = 1
        /\ loads[1].call_conv = "C"
        /\ Len(calls) = 1
        /\ entry > 0
        /\ calls[1].a = entry - 1
        /\ calls[1].b = proc_symbols[entry].linker_sym_index
        /\ calls[1].c = CallArity(loads[1], l.layout)

\* a low-level operation or a wrapper of one, bound by the Let l
LowLevelCall(l) ==
    LET calls == CallsIn(LetCode(LastCode, l.sym))
        loads == LoadsFor(l.sym)
        name == RoutineOf(LowLevelOf(l.expr))
    IN  /\ Len(loads) = 1
        /\ loads[1].call_conv = "Zig"
        /\ IF name = "" THEN calls = <<>>
           ELSE /\ Len(calls) = 1
                /\ Cardinality({k \in 1..Len(module.import) :
                                   module.import[k].name = name}) = 1
                /\ At(module.import, calls[1].a).name = name
                /\ name \in DOMAIN builtin_sym_index_map
                /\ calls[1].b = builtin_sym_index_map[name]
                /\ calls[1].b \in ImportedSymbols
                /\ At(linker_symbols, calls[1].b).index = calls[1].a
                /\ calls[1].c = CallArity(loads[1], l.layout)

\* the calls that statements other than the Lets of the procedure make (of
\* refcounting helpers) are calls of procedures of the module as well
OtherCalls ==
    /\ \A k \in 1..Len(history.loads) :
          (\A l \in Lets(history.proc.body) : l.sym # history.loads[k].sym) =>
              history.loads[k].call_conv = "C"
    /\ \A p \in 1..Len(EmittedCode) : \A i \in 1..Len(EmittedCode[p]) :
          LET ins == EmittedCode[p][i]
          IN  (ins.op = "call" /\ ins.b \notin ImportedSymbols) =>
                 /\ ins.a < Len(proc_symbols)
                 /\ At(proc_symbols, ins.a).linker_sym_index = ins.b
                 /\ FirstEntry(At(proc_symbols, ins.a).sym) = ins.a + 1

\* C30: a ByName call of a procedure that is not an inlined wrapper of a
\* low-level operation loads its arguments with the C convention and emits
\* one call, whose function index is the position of the first entry of
\* proc_symbols with the callee's symbol and whose relocation symbol is the
\* linker symbol index of that entry; a low-level operation, and a wrapper
\* of one, loads its arguments with the Zig convention and, if it needs a
\* runtime routine, calls it through the import that is made once for the
\* routine's name.
C30_CallLowering ==
    /\ error = "none"
    /\ LetsLowered =>
          /\ \A l \in Lets(history.proc.body) :
                l.expr.k = "Call" =>
                    IF LowLevelOf(l.expr) = "None" THEN ByNameCall(l) ELSE LowLevelCall(l)
          /\ OtherCalls

\* the caller is compiled before one of the two entries of the procedure it
\* calls, after it has called a wrapper through an import
C30_Witness ==
    /\ call_stack = <<>>
    /\ history.proc.name = "main"
    /\ Cardinality({i \in 1..Len(proc_symbols) : proc_symbols[i].sym = "f"}) = 2
    /\ \E l1, l2 \in Lets(history.proc.body) :
          /\ l1.expr.k = "Call" /\ l1.expr.call_type = "ByName"
          /\ l1.expr.name = "g"
          /\ CallsIn(LetCode(LastCode, l1.sym)) # <<>>
          /\ l2.expr.k = "Call" /\ l2.expr.call_type = "ByName"
          /\ l2.expr.name = "Str.concat"
          /\ CallsIn(LetCode(LastCode, l2.sym)) # <<>>

\* a call of the procedure with two entries, and of a refcounting helper,
\* whose linker symbol index is not its function index
C30_HelperWitness ==
    /\ call_stack = <<>>
    /\ history.proc.name = "main"
    /\ Len(history.loads) = 2
    /\ \E l \in Lets(history.proc.body) :
          /\ l.expr.k = "Call" /\ l.expr.call_type = "ByName" /\ l.expr.name = "f"
          /\ CallsIn(LetCode(LastCode, l.sym))[1].a = 1
    /\ \E i \in 1..Len(LastCode) :
          /\ LastCode[i].op = "call"
          /\ LastCode[i].a # LastCode[i].b
          /\ LastCode[i].b \notin ImportedSymbols

---------------------------------------------------------------------------
(* The round trip of a tag id: a procedure builds a tag that is not null,  *)
(* reads its tag id back and returns it, for unions of every               *)
(* representation, with the tag id stored in 1, 4 and 8 bytes and in the   *)
(* pointer.                                                                *)

\* three tags without fields, kept in the stack frame: the alignment is 1
UnionEnum == UnionLayout("NonRecursive", <<<<>>, <<>>, <<>>>>, 0)

RoundTripCases ==
    {c \in TagCases : ~tag_is_null(c[1], c[2])}
    \cup {<<UnionNonRecursive, 0, <<"x">>>>, <<UnionNonRecursive, 1, <<"y">>>>,
          <<UnionEnum, 0, <<>>>>, <<UnionEnum, 2, <<>>>>,
          <<UnionUnwrapped, 0, <<"x", "x">>>>,
          <<UnionFour, 1, <<"x">>>>, <<UnionFour, 2, <<"x">>>>,
          <<UnionNullableFour, 0, <<"x">>>>, <<UnionNullableFour, 1, <<"y">>>>,
          <<UnionNullableFour, 3, <<"x">>>>, <<UnionNullableFour, 4, <<"x">>>>}

\* the same procedure with a string of one byte in the stack frame first, so
\* that a union kept in the stack frame is not at its start
PaddedTagProc(c) ==
    Proc("tag", ExprArgs,
         Let("s", LiteralStr(<<97>>), LayoutStr, TagProc(c).body), LayoutI32)

RoundTripProcs ==
    {TagProc(c) : c \in RoundTripCases} \cup {PaddedTagProc(c) : c \in RoundTripCases}

InitRoundTrip == \E p \in RoundTripProcs : InitWith(<<p>>)

SpecRoundTrip == InitRoundTrip /\ [][NextExpr]_vars

\* the Tag expression of the procedure, its union and its tag id
BuiltTag == (CHOOSE l \in Lets(history.proc.body) : l.sym = "t").expr

\* the bytes an instruction stores or loads
AccessWidth(op) ==
    CASE op \in {"i32.store8", "i32.load8_u"} -> 1
      [] op \in {"i32.store16", "i32.load16_u"} -> 2
      [] op \in {"i32.store", "i32.load"} -> 4
      [] op \in {"i64.store", "i64.load"} -> 8

\* the offset in the stack frame of a union that is kept there
TagDataOffset ==
    IF BuiltTag.tag_layout.variant = "NonRecursive" /\ history.proc.body.sym = "s"
    THEN 8 ELSE 0

\* the store of the tag id: the last instruction of the Tag expression, the
\* local that holds its base address, and its offset from it
IdStore ==
    LET c == LetCode(VmCode, "t")
    IN  [ins |-> c[Len(c)], value |-> c[Len(c) - 1], local |-> c[Len(c) - 2]]

\* the load of the tag id: the local that holds its base address, and its
\* offset from it, the constant added to the address included
IdLoad ==
    LET c == LetCode(VmCode, "g")
        i == CHOOSE i \in 1..Len(c) : c[i].op \in MemoryLoads
    IN  [ins |-> c[i],
         local |-> IF c[i - 1].op = "i32.add" THEN c[i - 3] ELSE c[i - 1],
         offset |-> c[i].b + (IF c[i - 1].op = "i32.add" THEN c[i - 2].a ELSE 0)]

\* the tag id is stored after the data of the union and read back there
StoredAsData(same_width) ==
    LET sa == data_size_and_alignment(BuiltTag.tag_layout)
    IN  /\ IdStore.ins.op \in StoreOps
        /\ IdStore.local.op = "get_local"
        /\ IdStore.value.op \in {"i32.const", "i64.const"}
        /\ IdStore.value.a = BuiltTag.tag_id
        /\ IdStore.ins.b = TagDataOffset + sa[1] - sa[2]
        /\ AccessWidth(IdStore.ins.op) = sa[2]
        /\ Cardinality({i \in 1..Len(LetCode(VmCode, "g")) :
                           LetCode(VmCode, "g")[i].op \in MemoryLoads}) = 1
        /\ IdLoad.local.op = "get_local"
        /\ IdLoad.local.a = IdStore.local.a
        /\ IdLoad.offset = IdStore.ins.b
        /\ AccessWidth(IdLoad.ins.op) =
              (IF same_width THEN AccessWidth(IdStore.ins.op)
               ELSE tag_id_size(BuiltTag.tag_layout))
        /\ vm.status = "done" =>
              MemByte(vm.mem, At(vm.locals, IdStore.local.a) + IdStore.ins.b)
                  = BuiltTag.tag_id

\* the tag id is in the low bits of the pointer and read back from them
StoredInPointer ==
    LET t == LetCode(VmCode, "t")
        g == LetCode(VmCode, "g")
        n == Len(t)
    IN  /\ BuiltTag.tag_id < 4
        /\ t[n].op = "set_local" /\ t[n - 1].op = "i32.or"
        /\ IsConst(t[n - 2], BuiltTag.tag_id)
        /\ t[n - 3].op = "get_local" /\ t[n - 3].a = t[n].a
        /\ g[Len(g)].op = "i32.and" \/ (g[Len(g)].op = "end" /\ g[Len(g) - 1].op = "i32.and")
        /\ \E i \in 2..Len(g) : g[i].op = "i32.and" /\ IsConst(g[i - 1], 3)
        /\ {i \in 1..Len(g) : g[i].op \in MemoryLoads} = {}
        /\ vm.status = "done" =>
              /\ Len(vm.allocs) = 1
              /\ vm.allocs[1].addr % 4 = 0
              /\ At(vm.locals, t[n].a) % 4 = BuiltTag.tag_id

TagIdRoundTrip(same_width) ==
    (Finished /\ vm.status \in {"idle", "done"}) =>
        /\ vm.status = "done" => vm.stack = <<BuiltTag.tag_id>>
        /\ stores_tag_id_as_data(BuiltTag.tag_layout, PTR_SIZE) => StoredAsData(same_width)
        /\ stores_tag_id_in_pointer(BuiltTag.tag_layout, PTR_SIZE) => StoredInPointer

\* C31 as stated: the tag id that is stored after the data is read back with
\* the width it was stored with
C31_SameWidth == TagIdRoundTrip(TRUE)

\* C31: for every representation of a union and every tag id t of it that
\* is not null, the code of build_tag followed by the code of
\* build_get_tag_id gives t.  A tag id that is stored as data is written at
\* data_offset + data_size - data_alignment by a store as wide as the
\* alignment of the union, and read back at the same address by a load as
\* wide as the tag id type (one byte), the low byte of what was stored; else
\* it is in the low 2 bits of the pointer, which are clear in the address
\* that was allocated, and is read back by masking with 3.
C31_TagIdRoundTrip == TagIdRoundTrip(FALSE)

\* a tag id of a union of alignment 8 in the stack frame, behind another
\* value, has come back from an 8-byte store and a 1-byte load
C31_Witness ==
    /\ Finished
    /\ vm.status = "done"
    /\ BuiltTag.tag_layout = UnionNonRecursive
    /\ BuiltTag.tag_id = 1
    /\ TagDataOffset = 8
    /\ IdStore.ins.op = "i64.store"
    /\ IdLoad.ins.op = "i32.load8_u"
    /\ vm.stack = <<1>>

\* a tag id has come back from the low bits of a pointer
C31_PointerWitness ==
    /\ Finished
    /\ vm.status = "done"
    /\ BuiltTag.tag_layout = UnionNullableWrapped
    /\ BuiltTag.tag_id = 2
    /\ vm.stack = <<2>>
    /\ \E e \in vm.executed : e.op = "i32.or"

---------------------------------------------------------------------------
(* Structs written and read: a procedure builds a struct of its arguments  *)
(* (of 1, 4 and 8 bytes, strings and structs), at the start of its stack   *)
(* frame or behind another value, reads one field back and returns it.     *)

\* a struct of 5 bytes, which takes 8
LayoutInner == LayoutStruct(<<LayoutI32, LayoutBool>>)

AgreeLayouts == {LayoutBool, LayoutI32, LayoutI64, LayoutStr, LayoutInner}

AgreeProc(layouts, index, behind) ==
    LET read == Let("s", Struct([i \in 1..Len(layouts) |-> FieldSym(i)]),
                    LayoutStruct(layouts),
                    Let("f", StructAtIndex(index, layouts, "s"), layouts[index + 1],
                        Ret("f")))
    IN  Proc("agree",
             [i \in 1..Len(layouts) |-> [layout |-> layouts[i], symbol |-> FieldSym(i)]],
             IF behind THEN Let("p", LiteralStr(<<97>>), LayoutStr, read) ELSE read,
             layouts[index + 1])

AgreeProcs(n) ==
    UNION {{AgreeProc(layouts, index, behind) :
               index \in 0..(Len(layouts) - 1), behind \in BOOLEAN}
           : layouts \in UNION {[1..k -> AgreeLayouts] : k \in 2..n}}

InitAgree == \E p \in AgreeProcs(MaxFields) : InitWith(<<p>>)

SpecAgree == InitAgree /\ [][NextExpr]_vars

AgreeStruct == CHOOSE l \in Lets(history.proc.body) : l.sym = "s"
AgreeRead == CHOOSE l \in Lets(history.proc.body) : l.sym = "f"

\* the offset of the struct in the stack frame, and the local that holds
\* the address of the frame
AgreeBase == IF history.proc.body.sym = "p" THEN 8 ELSE 0
FramePointer == (CHOOSE i \in 1..Len(VmCode) : VmCode[i].op = "frame_push")

\* the offset of field k (from 1): the stack sizes of the fields before it
SizesBefore(layouts, k) == SumSeq(FieldSizes(Take(layouts, k - 1)))

\* the bytes of argument i when the machine was started with the value v
ArgBytes(layout, i, v) ==
    LET wl == WasmLayoutNew(layout)
        value == v + 16 * (i - 1)
    IN  IF wl.k = "Primitive"
        THEN Take(I32ToLeBytes(value) \o <<0, 0, 0, 0>>, wl.size)
        ELSE [j \in 1..wl.size |-> 16 * i + j]

\* the offsets the code c stores to, and loads from
StoredAt(c) == {c[i].b : i \in {j \in 1..Len(c) : c[j].op \in StoreOps}}
LoadedAt(c) == {c[i].b : i \in {j \in 1..Len(c) : c[j].op \in MemoryLoads}}

\* C32: for every list of fields and every index i, create_struct writes
\* field i at the offset at which StructAtIndex reads it, the sum of the
\* stack sizes of the fields before it from the base of the struct in the
\* stack frame, and the field that is read is the value that was written.
C32_StructAgreement ==
    (Finished /\ vm.status \in {"idle", "done"}) =>
        LET layouts == AgreeStruct.layout.fields
            index == AgreeRead.expr.index
            written == StoredAt(LetCode(VmCode, "s"))
            read == LoadedAt(LetCode(VmCode, "f"))
            at(k) == AgreeBase + SizesBefore(layouts, k)
            frame == At(vm.locals, VmCode[FramePointer].b)
        IN  /\ \A k \in 1..Len(layouts) : at(k) \in written
            /\ \A o \in written : o >= AgreeBase /\ o < at(Len(layouts) + 1)
            /\ at(index + 1) \in read
            /\ \A o \in read : o >= at(index + 1) /\ o < at(index + 2)
            /\ vm.status = "done" =>
                  /\ \A k \in 1..Len(layouts) :
                        LoadBytes(vm.mem, frame + at(k), stack_size(layouts[k]))
                            = ArgBytes(layouts[k], k, vm.arg)
                  /\ IF ReturnsByPointer(history.proc)
                     THEN LoadBytes(vm.mem, RetAddr, stack_size(layouts[index + 1]))
                             = ArgBytes(layouts[index + 1], index + 1, vm.arg)
                     ELSE vm.stack = <<ArgValue(layouts[index + 1], index + 1, vm.arg)>>

\* the last field of a struct of a 1-byte field, a struct of 5 bytes and a
\* string, behind another value in the stack frame, has been read back
C32_Witness ==
    /\ Finished
    /\ vm.status = "done"
    /\ AgreeBase = 8
    /\ AgreeStruct.layout.fields = <<LayoutBool, LayoutInner, LayoutStr>>
    /\ AgreeRead.expr.index = 2
    /\ 8 + 9 \in LoadedAt(LetCode(VmCode, "f"))
    /\ LoadBytes(vm.mem, RetAddr, 8) = ArgBytes(LayoutStr, 3, vm.arg)

---------------------------------------------------------------------------
(* The tables of the linker across a session of several procedures *)

\* the entry i (from 0) of linker_symbols, if there is one, is of a kind
LinkerSymbolIs(i, kind, def) ==
    /\ i >= 0 /\ i < Len(linker_symbols)
    /\ At(linker_symbols, i).kind = kind
    /\ At(linker_symbols, i).def = def

\* the entries of proc_symbols made for refcounting helpers
HelperEntries ==
    {k \in 1..Len(proc_symbols) : proc_symbols[k].sym \in refcount_proc_gen.procs}

LinkerTablesResolve ==
    /\ \A string \in DOMAIN constant_sym_index_map :
          LinkerSymbolIs(constant_sym_index_map[string], "Data", "Defined")
    /\ \A name \in DOMAIN builtin_sym_index_map :
          /\ LinkerSymbolIs(builtin_sym_index_map[name], "Function", "Imported")
          /\ At(linker_symbols, builtin_sym_index_map[name]).index < Len(module.import)
    /\ \A k \in HelperEntries :
          /\ LinkerSymbolIs(proc_symbols[k].linker_sym_index, "Function", "Defined")
          /\ At(linker_symbols, proc_symbols[k].linker_sym_index).index = k - 1
    /\ error \notin {"Invalid linker symbol info for string",
                     "Invalid linker symbol for builtin"}

\* a step leaves every entry of linker_symbols as it was, and an entry that
\* it adds to proc_symbols is one for the symbol that it adds
LinkerSymbolsAppended ==
    /\ IsPrefix(linker_symbols, linker_symbols')
    /\ IsPrefix(proc_symbols, proc_symbols')
    /\ \A k \in (Len(proc_symbols) + 1)..Len(proc_symbols') :
          /\ proc_symbols'[k].linker_sym_index >= Len(linker_symbols)
          /\ proc_symbols'[k].linker_sym_index < Len(linker_symbols')
          /\ At(linker_symbols', proc_symbols'[k].linker_sym_index).kind = "Function"
          /\ At(linker_symbols', proc_symbols'[k].linker_sym_index).def = "Defined"

\* C33: in every state of a session linker_symbols has only been appended
\* to; every value of constant_sym_index_map is the index of a Defined Data
\* symbol, every value of builtin_sym_index_map the index of an Imported
\* Function symbol whose import index is below the number of imports, and
\* every entry of proc_symbols made for a helper that of a Defined Function
\* symbol; so lookup_string_constant and call_zig_builtin never reach their
\* internal errors.
C33_LinkerTables == []LinkerTablesResolve /\ [][LinkerSymbolsAppended]_vars

\* a session has pooled a string, imported a routine it called and
\* registered a helper, behind the symbols of its two procedures
C33_Witness ==
    /\ error = "none"
    /\ procs = <<>>
    /\ call_stack = <<>>
    /\ DOMAIN constant_sym_index_map # {}
    /\ DOMAIN builtin_sym_index_map # {}
    /\ HelperEntries # {}
    /\ \E p \in 1..2 : ImportCalls(EmittedCode[p]) # {}
    /\ Len(linker_symbols) = 6

---------------------------------------------------------------------------
(* The order of the locks.  get_or_insert_hashed_normalized_lambda_set     *)
(* locks normalized_lambda_set_map, then map, then vec;                    *)
(* get_or_insert_hashed_normalized_recursive locks map, then vec, then     *)
(* normalized_lambda_set_map.                                              *)

\* the lock a thread inside a call is blocked on: the next lock() / read() /
\* write() of its method, when another thread holds that lock
WaitsFor(t) ==
    LET pc == threads[t].pc
        next == CASE pc = "lambda_set_write" -> IF Free("map") THEN "vec" ELSE "map"
                  [] pc = "lambda_set_read" -> "vec"
                  [] pc = "recursive_read" -> "vec"
                  [] pc = "recursive_write" -> "vec"
                  [] pc = "recursive_reify" -> "normalized_lambda_set_map"
                  [] OTHER -> "none"
    IN  IF next # "none" /\ mode = "global" /\ locks[next] \notin {0, t}
        THEN {next} ELSE {}

\* every thread of S is blocked on a lock that a thread of S holds
WaitOnEachOther(S) ==
    /\ S # {}
    /\ \A t \in S : \E l \in WaitsFor(t) : locks[l] \in S

\* C34: deadlock freedom of the global interner: in no reachable state of
\* threads that call insert, insert_lambda_set, insert_recursive and get on
\* forks of one GlobalLayoutInterner do threads wait on each other's locks;
\* a thread that inserts a new lambda set and a thread that inserts a new
\* recursive layout never block one another.
C34_DeadlockFree ==
    \A S \in SUBSET DOMAIN threads : ~WaitOnEachOther(S)

---------------------------------------------------------------------------
(* Array literals.  A procedure binds l to a literal of integer elements   *)
(* and returns its parameter; in one variant a struct is built before the  *)
(* list, so that the list is not the first value of the stack frame.       *)

MaxElems == 2

ElemValues == {1, -2}
ElemLayouts == {LayoutI32, LayoutI64, LayoutInt(16)}

\* [p = Struct {x, x};] l = Array [e1, .., en]; return x
ArrayProc(values, elem_layout, behind) ==
    LET array == Let("l", Array([i \in 1..Len(values) |-> IntElem(values[i])], elem_layout),
                     LayoutList(elem_layout), Ret("x"))
    IN  Proc("array", <<[layout |-> LayoutI32, symbol |-> "x"]>>,
             IF behind THEN Let("p", Struct(<<"x", "x">>), StructXX, array) ELSE array,
             LayoutI32)

ArrayProcs(n) ==
    {ArrayProc(values, elem_layout, behind) :
        values \in UNION {[1..k -> ElemValues] : k \in 1..n},
        elem_layout \in ElemLayouts, behind \in BOOLEAN}

InitArray == \E p \in ArrayProcs(MaxElems) : InitWith(<<p>>)

SpecArray == InitArray /\ [][NextExpr]_vars

ArrayLit == (CHOOSE l \in Lets(history.proc.body) : l.sym = "l").expr
\* the offset of the list in the stack frame
ArraySlot == IF history.proc.body.sym = "p" THEN 8 ELSE 0

\* the bytes of an integer literal in an element of `size` bytes
ElemBytes(elem, size) ==
    LET sign == IF elem.lit.v < 0 THEN 255 ELSE 0
    IN  Take(I64ToLeBytes(I64FromInt(elem.lit.v)) \o [i \in 1..8 |-> sign], size)

\* the local whose value is the address a store writes to: the get_local two
\* instructions before it (the value stored is a constant)
AddressLocal(code, j) ==
    IF j > 2 /\ code[j - 2].op = "get_local" THEN code[j - 2].a ELSE -1

\* C35: for an Array literal of n integer-literal elements the emitted code
\* allocates n * element size bytes (and the refcount header) with a
\* refcount of 1, stores the returned data address and the length n into
\* the list's frame slot, at its offset and at its offset + 4, and stores
\* element i into the allocated heap data at byte offset i * element size,
\* never into the frame slot or beyond it on the stack frame.
C35_ArrayLiteral ==
    (Finished /\ history.proc.name = "array" /\ vm.status \in {"idle", "done"}) =>
        LET code == LetCode(VmCode, "l")
            elems == ArrayLit.elems
            n == Len(elems)
            size == stack_size(ArrayLit.elem_layout)
            frame_pointer == VmCode[FramePointer].b
            frame == At(vm.locals, frame_pointer)
        IN  /\ Cardinality(AllocSites(code)) = 1
            /\ \A i \in AllocSites(code) :
                  /\ IsConst(code[i - 2], n * size + PTR_SIZE)
                  /\ IsConst(code[i + 3], encoded_refcount(1))
                  /\ code[i + 4].op = "i32.store"
            /\ \E j \in 1..Len(code) :
                  /\ code[j].op = "i32.store" /\ code[j].b = ArraySlot
                  /\ \E i \in AllocSites(code) : i < j
            /\ \E j \in 1..Len(code) :
                  /\ code[j].op = "i32.store" /\ code[j].b = ArraySlot + 4
                  /\ IsConst(code[j - 1], n)
                  /\ AddressLocal(code, j) = frame_pointer
            /\ \A j \in 1..Len(code) :
                  code[j].op = "i64.store" => AddressLocal(code, j) # frame_pointer
            /\ vm.status = "done" =>
                  /\ Len(vm.allocs) = 1
                  /\ vm.allocs[1].size = n * size + PTR_SIZE
                  /\ LET data == vm.allocs[1].addr + PTR_SIZE
                     IN  /\ LoadBytes(vm.mem, frame + ArraySlot, 8)
                                = I32ToLeBytes(data) \o I32ToLeBytes(n)
                         /\ \A i \in 1..n :
                               LoadBytes(vm.mem, data + (i - 1) * size, size)
                                   = ElemBytes(elems[i], size)
                  /\ \A a \in DOMAIN vm.mem :
                        a >= frame + ArraySlot + 8 => a >= HeapBase

\* what does hold of the literal: the allocation, its refcount of 1, and the
\* address and the length in the list's slot; and every element is written
\* through the frame pointer, 16 bytes each, from 12 bytes behind the slot's
\* offset on
C35_ElementsInFrame ==
    (Finished /\ history.proc.name = "array" /\ vm.status \in {"idle", "done"}) =>
        LET code == LetCode(VmCode, "l")
            n == Len(ArrayLit.elems)
            size == stack_size(ArrayLit.elem_layout)
            frame_pointer == VmCode[FramePointer].b
            frame == At(vm.locals, frame_pointer)
            stores == {j \in 1..Len(code) : code[j].op = "i64.store"}
        IN  /\ \A i \in AllocSites(code) :
                  /\ IsConst(code[i - 2], n * size + PTR_SIZE)
                  /\ IsConst(code[i + 3], encoded_refcount(1))
            /\ Cardinality(stores) = 2 * n
            /\ \A j \in stores : AddressLocal(code, j) = frame_pointer
            /\ {code[j].b : j \in stores} = {ArraySlot + 4 + 8 * k : k \in 1..(2 * n)}
            /\ vm.status = "done" =>
                  /\ LoadBytes(vm.mem, frame + ArraySlot, 8)
                         = I32ToLeBytes(vm.allocs[1].addr + PTR_SIZE) \o I32ToLeBytes(n)
                  /\ \A i \in 1..n :
                        LoadBytes(vm.mem, frame + ArraySlot + 12 + 16 * (i - 1), 16)
                            = ElemBytes(ArrayLit.elems[i], 16)
                  /\ \A a \in DOMAIN vm.mem :
                        a >= HeapBase => a < vm.allocs[1].addr + PTR_SIZE

\* the machine ran a literal of two elements behind a struct: the elements
\* lie past the end of the stack frame
C35_Witness ==
    /\ Finished
    /\ history.proc.name = "array"
    /\ vm.status = "done"
    /\ ArraySlot = 8
    /\ Len(ArrayLit.elems) = 2
    /\ \E a \in DOMAIN vm.mem : a >= StackTop /\ a < HeapBase

---------------------------------------------------------------------------
(* The dev backend, x86-64: CallConv::setup_stack and cleanup_stack of     *)
(* X86_64SystemV and X86_64WindowsFastcall.  A u32 and a usize are kept in *)
(* two parts (Wide), as the sizes of interest lie around i32::MAX and      *)
(* u32::MAX; the buffer holds instructions, not their encoding.            *)

MaxSaved == 2
MaxPool == 3
MaxPad == 16

Limb == 65536

WideNorm(hi, lo) == Wide(hi + (lo \div Limb), lo % Limb)
WideOf(n) == WideNorm(0, n)
WideAdd(a, b) == WideNorm(a.hi + b.hi, a.lo + b.lo)
WideSub(a, b) == WideNorm(a.hi - b.hi, a.lo - b.lo)
WideLess(a, b) == a.hi < b.hi \/ (a.hi = b.hi /\ a.lo < b.lo)
\* the Limb is a multiple of 16
WideMod16(a) == a.lo % 16

U32_MAX == Wide(Limb - 1, Limb - 1)
I32_MAX == Wide(Limb \div 2 - 1, Limb - 1)

\* u32::checked_add
checked_add(a, b) ==
    LET sum == WideAdd(a, b)
    IN  IF WideLess(U32_MAX, sum) THEN [some |-> FALSE, value |-> Wide(0, 0)]
        ELSE [some |-> TRUE, value |-> sum]

\* `as i32` of a u32: the same 32 bits, read as two's complement
AsI32(a) == IF WideLess(I32_MAX, a) THEN Wide(a.hi - Limb, a.lo) ELSE a

STACK_ALIGNMENT == 16
MAX_STACK_SIZE == I32_MAX

Conventions == {"SystemV", "WindowsFastcall"}

\* the registers of GP_DEFAULT_FREE_REGS for which callee_saved holds, in
\* the order of GP_DEFAULT_FREE_REGS
CalleeSavedFree(conv) ==
    IF conv = "SystemV" THEN <<"RBX", "R12", "R13", "R14", "R15">>
    ELSE <<"RBX", "RSI", "RDI", "R12", "R13", "R14", "R15">>

\* the instructions of X86_64Assembler that the two functions emit
PushReg64(reg) == [op |-> "push", dst |-> reg, src |-> "", imm |-> Wide(0, 0)]
PopReg64(reg) == [op |-> "pop", dst |-> reg, src |-> "", imm |-> Wide(0, 0)]
MovReg64Reg64(dst, src) == [op |-> "mov", dst |-> dst, src |-> src, imm |-> Wide(0, 0)]
SubReg64Imm32(dst, imm) == [op |-> "sub", dst |-> dst, src |-> "", imm |-> imm]
AddReg64Imm32(dst, imm) == [op |-> "add", dst |-> dst, src |-> "", imm |-> imm]

Ok(value) == [ok |-> TRUE, value |-> value, err |-> ""]
Err(message) == [ok |-> FALSE, value |-> Wide(0, 0), err |-> message]

PushAll(regs) == [i \in 1..Len(regs) |-> PushReg64(regs[i])]
PopAllRev(regs) == [i \in 1..Len(regs) |-> PopReg64(regs[Len(regs) + 1 - i])]

\* the prologue of setup_stack: RBP saved and made the frame pointer in a
\* function that calls others, then the saved registers pushed in order
setup_stack_pushes(buf, leaf_function, saved_regs) ==
    buf \o (IF leaf_function THEN <<>>
            ELSE <<PushReg64("RBP"), MovReg64Reg64("RBP", "RSP")>>)
        \o PushAll(saved_regs)

\* setup_stack that rounds the requested size alone up to the alignment,
\* whatever the number of registers pushed
setup_stack_size_alone(buf, leaf_function, saved_regs, requested_stack_size) ==
    LET b1 == setup_stack_pushes(buf, leaf_function, saved_regs)
        alignment == WideMod16(requested_stack_size) % STACK_ALIGNMENT
        offset == IF alignment = 0 THEN 0 ELSE STACK_ALIGNMENT - alignment
        aligned_stack_size == checked_add(requested_stack_size, WideOf(offset))
    IN  IF aligned_stack_size.some
        THEN IF WideLess(MAX_STACK_SIZE, aligned_stack_size.value)
             THEN <<b1, Err("Ran out of stack space")>>
             ELSE <<IF WideLess(Wide(0, 0), aligned_stack_size.value)
                    THEN Append(b1, SubReg64Imm32("RSP", AsI32(aligned_stack_size.value)))
                    ELSE b1,
                    Ok(aligned_stack_size.value)>>
        ELSE <<b1, Err("Ran out of stack space")>>

\* CallConv::setup_stack (the two conventions have the same body)
setup_stack(buf, leaf_function, saved_regs, requested_stack_size) ==
    LET b1 == setup_stack_pushes(buf, leaf_function, saved_regs)
        \* (8 * saved_regs.len() + requested_stack_size as usize) % 16, in usize
        alignment ==
            WideMod16(WideAdd(WideOf(8 * Len(saved_regs)), requested_stack_size))
                % STACK_ALIGNMENT
        offset == IF alignment = 0 THEN 0 ELSE STACK_ALIGNMENT - alignment
        aligned_stack_size == checked_add(requested_stack_size, WideOf(offset))
    IN  IF aligned_stack_size.some
        THEN IF WideLess(MAX_STACK_SIZE, aligned_stack_size.value)
             THEN <<b1, Err("Ran out of stack space")>>
             ELSE <<IF WideLess(Wide(0, 0), aligned_stack_size.value)
                    THEN Append(b1, SubReg64Imm32("RSP", AsI32(aligned_stack_size.value)))
                    ELSE b1,
                    Ok(aligned_stack_size.value)>>
        ELSE <<b1, Err("Ran out of stack space")>>

\* CallConv::cleanup_stack
cleanup_stack(buf, leaf_function, saved_regs, aligned_stack_size) ==
    LET b1 == IF WideLess(Wide(0, 0), aligned_stack_size)
              THEN Append(buf, AddReg64Imm32("RSP", AsI32(aligned_stack_size)))
              ELSE buf
        b2 == b1 \o PopAllRev(saved_regs)
    IN  <<IF leaf_function THEN b2
          ELSE b2 \o <<MovReg64Reg64("RSP", "RBP"), PopReg64("RBP")>>,
          Ok(Wide(0, 0))>>

\* the sizes that are requested: small ones, and the ones around i32::MAX
\* and below u32::MAX
RequestedSizes ==
    {WideOf(k) : k \in 0..MaxPad}
    \cup {WideSub(I32_MAX, WideOf(k)) : k \in 0..MaxPad}
    \cup {WideAdd(I32_MAX, WideOf(k)) : k \in 1..2}
    \cup {WideSub(U32_MAX, WideOf(k)) : k \in 0..MaxPad}

\* the lists of registers to save: callee-saved registers the function used
SavedLists(conv) ==
    LET pool == Take(CalleeSavedFree(conv), MaxPool)
    IN  {regs \in UNION {[1..n -> {pool[i] : i \in DOMAIN pool}] : n \in 0..MaxSaved} :
            \A i \in DOMAIN regs, j \in DOMAIN regs : i # j => regs[i] # regs[j]}

\* the body of the function, between the two: it overwrites the registers
\* that were saved and leaves the stack pointer and RBP as they were
FnBody == [op |-> "body", dst |-> "", src |-> "", imm |-> Wide(0, 0)]

WasmIdle == UNCHANGED <<backend_vars, procs, call_stack, vm, interner_vars>>

\* setup_stack at the start of a function
SetupStack ==
    /\ dev_fn.phase = "new"
    /\ \E conv \in Conventions, leaf_function \in BOOLEAN,
          requested_stack_size \in RequestedSizes :
          \E saved_regs \in SavedLists(conv) :
             LET r == setup_stack(dev_buf, leaf_function, saved_regs, requested_stack_size)
             IN  /\ dev_buf' = r[1]
                 /\ dev_fn' = [phase |-> IF r[2].ok THEN "setup" ELSE "failed",
                               conv |-> conv, leaf_function |-> leaf_function,
                               saved_regs |-> saved_regs,
                               requested_stack_size |-> requested_stack_size,
                               result |-> r[2], setup_len |-> Len(r[1])]
    /\ UNCHANGED dev_cpu
    /\ WasmIdle

\* the body, then cleanup_stack with the size setup_stack returned
CleanupStack ==
    /\ dev_fn.phase = "setup"
    /\ dev_buf' = cleanup_stack(Append(dev_buf, FnBody), dev_fn.leaf_function,
                                dev_fn.saved_regs, dev_fn.result.value)[1]
    /\ dev_fn' = [dev_fn EXCEPT !.phase = "cleanup"]
    /\ UNCHANGED dev_cpu
    /\ WasmIdle

(* A processor for the instructions.  The stack pointer is kept relative to *)
(* its value at the entry of the function; a register holds the value it   *)
(* had at the entry, an address of the stack, or whatever the body left.    *)

EntryValue(reg) == [k |-> "entry", reg |-> reg, w |-> Wide(0, 0)]
AddrValue(w) == [k |-> "addr", reg |-> "", w |-> w]
Junk == [k |-> "junk", reg |-> "", w |-> Wide(0, 0)]

Registers == {"RBP"} \cup UNION {{CalleeSavedFree(conv)[i] : i \in DOMAIN CalleeSavedFree(conv)}
                                 : conv \in Conventions}

CpuExec(m, ins, saved_regs) ==
    LET next == [m EXCEPT !.pc = @ + 1]
    IN  CASE ins.op = "push" ->
                LET rsp == WideSub(m.rsp, WideOf(8))
                IN  [next EXCEPT !.rsp = rsp, !.mem = Put(@, rsp, m.regs[ins.dst])]
          [] ins.op = "pop" ->
                [next EXCEPT !.rsp = WideAdd(m.rsp, WideOf(8)),
                             !.regs[ins.dst] = IF m.rsp \in DOMAIN m.mem
                                               THEN m.mem[m.rsp] ELSE Junk]
          [] ins.op = "mov" /\ ins.src = "RSP" ->
                [next EXCEPT !.regs[ins.dst] = AddrValue(m.rsp)]
          [] ins.op = "mov" /\ ins.dst = "RSP" ->
                IF m.regs[ins.src].k = "addr"
                THEN [next EXCEPT !.rsp = m.regs[ins.src].w]
                ELSE [m EXCEPT !.status = "trap"]
          [] ins.op = "sub" -> [next EXCEPT !.rsp = WideSub(m.rsp, ins.imm)]
          [] ins.op = "add" -> [next EXCEPT !.rsp = WideAdd(m.rsp, ins.imm)]
          [] ins.op = "body" ->
                [next EXCEPT !.regs = [reg \in Registers |->
                                          IF \E i \in DOMAIN saved_regs : saved_regs[i] = reg
                                          THEN Junk ELSE m.regs[reg]]]

CpuStart ==
    /\ dev_fn.phase = "cleanup"
    /\ dev_cpu.status = "idle"
    /\ dev_cpu' = [status |-> "running", pc |-> 1, rsp |-> Wide(0, 0),
                   regs |-> [reg \in Registers |-> EntryValue(reg)], mem |-> <<>>]
    /\ UNCHANGED <<dev_buf, dev_fn>>
    /\ WasmIdle

CpuStep ==
    /\ dev_cpu.status = "running"
    /\ dev_cpu' = IF dev_cpu.pc > Len(dev_buf) THEN [dev_cpu EXCEPT !.status = "done"]
                  ELSE CpuExec(dev_cpu, dev_buf[dev_cpu.pc], dev_fn.saved_regs)
    /\ UNCHANGED <<dev_buf, dev_fn>>
    /\ WasmIdle

InitStack == InitWith(<<>>)

NextStack ==
    \/ SetupStack
    \/ CleanupStack
    \/ CpuStart
    \/ CpuStep

SpecStack == InitStack /\ [][NextStack]_vars

\* the instruction that undoes an instruction of the prologue
MirrorOf(ins) ==
    CASE ins.op = "push" -> PopReg64(ins.dst)
      [] ins.op = "sub" -> AddReg64Imm32(ins.dst, ins.imm)
      [] ins.op = "mov" -> MovReg64Reg64(ins.src, ins.dst)
      [] OTHER -> ins

Mirror(code) == [i \in 1..Len(code) |-> MirrorOf(code[Len(code) + 1 - i])]

\* the size rounded up so that, with the 8 bytes of every saved register, it
\* is a multiple of 16: the number itself, of any width
AlignedSize(requested, n) ==
    WideAdd(requested, WideOf((16 - ((8 * n + requested.lo) % 16)) % 16))

\* C36: setup_stack of both conventions, for every requested size and list
\* of saved registers: it returns Ok(aligned) with requested <= aligned <
\* requested + 16 and 8 * (number of saved registers) + aligned divisible
\* by 16, and subtracts from the stack pointer only when aligned > 0; it
\* returns Err("Ran out of stack space") exactly when the aligned size
\* overflows u32 or exceeds i32::MAX; cleanup_stack undoes it in mirror
\* order: aligned added back, the saved registers popped in reverse order,
\* RBP restored and popped in a function that is not a leaf.  After both the
\* stack pointer, RBP and the saved registers are what they were.
C36_SetupStack ==
    dev_fn.phase # "new" =>
        LET requested == dev_fn.requested_stack_size
            n == Len(dev_fn.saved_regs)
            r == dev_fn.result
            exact == AlignedSize(requested, n)
            setup == SubSeq(dev_buf, 1, dev_fn.setup_len)
            subs == {i \in DOMAIN setup : setup[i].op = "sub"}
            pushes == (IF dev_fn.leaf_function THEN <<>>
                       ELSE <<PushReg64("RBP"), MovReg64Reg64("RBP", "RSP")>>)
                      \o [i \in 1..n |-> PushReg64(dev_fn.saved_regs[i])]
        IN  /\ ~r.ok <=> (WideLess(U32_MAX, exact) \/ WideLess(I32_MAX, exact))
            /\ ~r.ok => r.err = "Ran out of stack space"
            /\ IsPrefix(pushes, setup)
            /\ r.ok =>
                  /\ r.value = exact
                  /\ ~WideLess(r.value, requested)
                  /\ WideLess(r.value, WideAdd(requested, WideOf(16)))
                  /\ (8 * n + r.value.lo) % 16 = 0
                  /\ IF r.value = Wide(0, 0) THEN setup = pushes
                     ELSE setup = Append(pushes, SubReg64Imm32("RSP", r.value))
            /\ dev_fn.phase = "cleanup" =>
                  /\ dev_buf[dev_fn.setup_len + 1] = FnBody
                  /\ SubSeq(dev_buf, dev_fn.setup_len + 2, Len(dev_buf)) = Mirror(setup)
            /\ dev_cpu.status # "trap"
            /\ dev_cpu.status = "done" =>
                  /\ dev_cpu.rsp = Wide(0, 0)
                  /\ dev_cpu.regs["RBP"] = EntryValue("RBP")
                  /\ \A i \in 1..n :
                        dev_cpu.regs[dev_fn.saved_regs[i]] = EntryValue(dev_fn.saved_regs[i])

\* a function that calls others, with two saved registers and the largest
\* frame there is (i32::MAX - 15, for a request below it), has run
C36_Witness ==
    /\ dev_cpu.status = "done"
    /\ ~dev_fn.leaf_function
    /\ Len(dev_fn.saved_regs) = 2
    /\ dev_fn.result.ok
    /\ dev_fn.result.value = WideSub(I32_MAX, WideOf(15))
    /\ dev_fn.requested_stack_size # dev_fn.result.value
    /\ \E i \in DOMAIN dev_buf : dev_buf[i].op = "sub"

\* a request that fits an i32 is refused, as the aligned size does not
C36_RefusedWitness ==
    /\ dev_fn.phase = "failed"
    /\ ~WideLess(I32_MAX, dev_fn.requested_stack_size)
    /\ dev_fn.result.err = "Ran out of stack space"
============================================================================
